---- MODULE Spec2Model ----
(***************************************************************************)
(* Model of the kata-containers CI dashboard data pipeline:                *)
(*   scripts/process-data.js        (nightly pipeline, writes data.json)   *)
(*   scripts/process-flaky-data.js  (PR pipeline, writes flaky-data.json)  *)
(*                                                                         *)
(* Conventions of the model                                                *)
(*  - An instant is an integer number of ticks; a calendar day is          *)
(*    t \div TicksPerDay (Date.toDateString), midnight of day d is         *)
(*    d * TicksPerDay (setHours(0,0,0,0) followed by toISOString()).       *)
(*  - A nullable scalar is the string "null"; a nullable object is a       *)
(*    sequence of length 0 (null / undefined) or 1 (the object).           *)
(*  - A job name is a sequence of characters, because the code converts    *)
(*    names (test ids, similarity); every other string is opaque.          *)
(*  - A regular expression is its source text; RegExpTest tabulates        *)
(*    RegExp.prototype.test on the step names of the model.                *)
(***************************************************************************)
EXTENDS Integers, Sequences, FiniteSets, TLC

VARIABLES
    pc,               \* position of the batch script that is running
    now,              \* the clock (new Date()), in ticks
    config,           \* config.yaml as loaded
    allJobs,          \* rawData.jobs
    jobLogs,          \* job id -> log lines (job-logs/*.log, pr-job-logs/*.log)
    cachedData,       \* previous data.json as loaded (Null when absent)
    failedTestsIndex, \* global index of failed tests (aliases the cache's index)
    sections,         \* sections built from config
    allJobsSection,   \* tests of the "All Jobs" section
    detectedRenames,  \* rename candidates of this run
    dataJson,         \* data.json on disk (Null when absent)
    runs,             \* number of completed nightly runs
    arg,              \* argument of the function under study
    res,              \* its result
    prJobResults,     \* PR pipeline: (pr, job) key -> failed / passed attempts
    flakyPRJobs,      \* PR pipeline: keys with both failed and passed attempts
    failedTestsMap,   \* PR pipeline: test name -> record with occurrences
    flakyJson,        \* flaky-data.json on disk (Null when absent)
    unreadable        \* the input files that are missing or cannot be parsed

vars == <<pc, now, config, allJobs, jobLogs, cachedData, failedTestsIndex,
          sections, allJobsSection, detectedRenames, dataJson, runs, arg, res,
          prJobResults, flakyPRJobs, failedTestsMap, flakyJson, unreadable>>

nightlyVars == <<now, config, allJobs, jobLogs, cachedData, failedTestsIndex,
                 sections, allJobsSection, detectedRenames, dataJson, runs>>
fnVars == <<arg, res>>
flakyVars == <<prJobResults, flakyPRJobs, failedTestsMap, flakyJson>>

-----------------------------------------------------------------------------
(* Generic helpers                                                          *)

Null == <<>>
Some(x) == <<x>>
IsNull(o) == o = <<>>
Val(o) == o[1]

Range(s) == {s[i] : i \in 1..Len(s)}

\* Array.prototype.filter
RECURSIVE SelectSeqBy(_, _)
SelectSeqBy(s, keep) ==
    IF s = <<>> THEN <<>>
    ELSE (IF Head(s) \in keep THEN <<Head(s)>> ELSE <<>>) \o SelectSeqBy(Tail(s), keep)

\* Array.prototype.findIndex over a set of accepted elements; 0 when none
FindIndex(s, accept) ==
    IF \E i \in 1..Len(s) : s[i] \in accept
    THEN CHOOSE i \in 1..Len(s) : s[i] \in accept /\ \A k \in 1..(i - 1) : s[k] \notin accept
    ELSE 0

\* Stable insertion of the keyed element x into s, which is sorted by
\* decreasing key k: x goes after every element whose key is >= its own.
RECURSIVE InsertDesc(_, _)
InsertDesc(s, x) ==
    IF s = <<>> THEN <<x>>
    ELSE IF Head(s).k >= x.k THEN <<Head(s)>> \o InsertDesc(Tail(s), x)
    ELSE <<x>> \o s

\* Array.prototype.sort((a, b) => b.k - a.k) on [k, v] pairs: stable (ES2019),
\* decreasing key
RECURSIVE SortDesc(_)
SortDesc(s) ==
    IF s = <<>> THEN <<>>
    ELSE InsertDesc(SortDesc(SubSeq(s, 1, Len(s) - 1)), s[Len(s)])

Vals(s) == [i \in 1..Len(s) |-> s[i].v]

-----------------------------------------------------------------------------
(* Time                                                                     *)

\* the instants of a day that the model tells apart
TicksPerDay == 4

\* new Date(x).toDateString(): the calendar day of an instant
toDateString(t) == t \div TicksPerDay

\* date.setHours(0, 0, 0, 0); date.toISOString(): midnight of a calendar day
Midnight(d) == d * TicksPerDay

-----------------------------------------------------------------------------
(* Configuration and raw job runs                                           *)

\* Step names of the model and the regular expressions configured over them
StepNames == {"Run tests", "Run tests on k8s", "Build image"}

\* p.test(name) for the regular expression with source p
RegExpTest(p, name) ==
    CASE p = "^Run tests" -> name \in {"Run tests", "Run tests on k8s"}
      [] p = "image"      -> name \in {"Build image"}
      [] OTHER            -> FALSE

\* new RegExp(p) throws a SyntaxError for the source p
IsMalformed(p) == p \in {"(", "[a-"}

\* fatalStepPatterns: config.fatal_steps, or the default when none is configured
fatalStepPatterns ==
    IF config.fatal_steps = <<>> THEN <<"^Run tests">> ELSE config.fatal_steps

\* fatalStepPatterns.some(p => p.test(name))
IsFatalStepName(name) ==
    \E i \in 1..Len(fatalStepPatterns) : RegExpTest(fatalStepPatterns[i], name)

\* job.steps?.find(s => s.conclusion === 'failure'): Null when steps are
\* missing or hold no failed step
FirstFailedStep(job) ==
    IF IsNull(job.steps) THEN Null
    ELSE LET st == Val(job.steps)
             i  == FindIndex(st, {x \in Range(st) : x.conclusion = "failure"})
         IN IF i = 0 THEN Null ELSE Some(st[i])

\* job.steps?.some(s => fatalStepPatterns.some(p => p.test(s.name)))
HasFatalStep(job) ==
    /\ ~IsNull(job.steps)
    /\ \E i \in 1..Len(Val(job.steps)) : IsFatalStepName(Val(job.steps)[i].name)

-----------------------------------------------------------------------------
(* 4.2 Job classifier                                                       *)

\* A classifier that counts every failed job as a test failure
determineStatus_NoFatalCheck(job) ==
    IF IsNull(job) THEN "not_run"
    ELSE IF Val(job).status \in {"in_progress", "queued"} THEN "not_run"
    ELSE IF Val(job).conclusion = "success" THEN "passed"
    ELSE IF Val(job).conclusion = "failure" THEN "failed"
    ELSE "not_run"

\* A classifier that looks at the conclusion before the status
determineStatus_ConclusionFirst(job) ==
    IF IsNull(job) THEN "not_run"
    ELSE IF Val(job).conclusion = "success" THEN "passed"
    ELSE IF Val(job).conclusion = "failure"
         THEN IF /\ ~IsNull(FirstFailedStep(Val(job)))
                 /\ ~IsFatalStepName(Val(FirstFailedStep(Val(job))).name)
              THEN "not_run_setup_failed" ELSE "failed"
    ELSE "not_run"

\* determineStatus(job); job is Null for an undefined job
determineStatus(job) ==
    IF IsNull(job) THEN "not_run"
    ELSE LET j == Val(job) IN
      IF j.status = "in_progress" \/ j.status = "queued" THEN "not_run"
      ELSE IF j.conclusion = "success" THEN "passed"
      ELSE IF j.conclusion = "failure" THEN
        LET failedStep     == FirstFailedStep(j)
            failedStepName == IF IsNull(failedStep) \/ Val(failedStep).name = ""
                              THEN "Unknown step" ELSE Val(failedStep).name
        IN IF ~IsNull(failedStep) /\ ~IsFatalStepName(failedStepName)
           THEN "not_run_setup_failed"
           ELSE "failed"
      ELSE IF j.conclusion = "cancelled" \/ j.conclusion = "skipped" THEN "not_run"
      ELSE "not_run"

\* status = rawStatus === 'not_run_setup_failed' ? 'not_run' : rawStatus
DisplayStatus(rawStatus) ==
    IF rawStatus = "not_run_setup_failed" THEN "not_run" ELSE rawStatus

-----------------------------------------------------------------------------
(* 4.1 Log parser                                                           *)
(* A log is a sequence of lines (log.split('\n')); a line is the sequence   *)
(* of its words, the white space between them left out.  The regular       *)
(* expressions of the parser capture from a line a record                  *)
(*   kind    "not ok" (notOkMatch), "ok" (okMatch) or "text" (neither)      *)
(*   number  the digits after "ok" / "not ok"                               *)
(*   name    the test name, timing suffix stripped                          *)
(*   comment the text after '#', "" when there is none                      *)
(*   bats    the *.bats word of the line (fileMatch), "" when none          *)

Line(kind, number, name, comment, bats) ==
    [kind |-> kind, number |-> number, name |-> name, comment |-> comment, bats |-> bats]

\* the words in which /not ok / finds a match, the flag i included
NotOkWords == {"not ok", "NOT OK"}

\* the words in which /ok / finds a match: the pattern is not anchored, so
\* that every word that ends in "ok" will do
OkWords == NotOkWords \cup {"ok", "Took"}

\* (\d+) and parseInt of it
NumberWords == {"1", "2", "3"}
ParseInt(w) == CASE w = "1" -> 1 [] w = "2" -> 2 [] w = "3" -> 3 [] OTHER -> 0

\* \s+in \d+ms
IsTiming(w) == w = "in 5ms"

\* \S+\.bats
IsBats(w) == w \in {"a.bats", "b.bats", "##[group]a.bats"}

\* the words of a piece of a line, as text
RECURSIVE Text(_)
Text(ws) ==
    IF ws = <<>> THEN ""
    ELSE IF Len(ws) = 1 THEN ws[1]
    ELSE ws[1] \o " " \o Text(Tail(ws))

\* A pattern that is tied to the start of the line
HeadAt_LineStart(raw, heads) ==
    IF Len(raw) >= 3 /\ raw[1] \in heads /\ raw[2] \in NumberWords THEN 1 ELSE 0

\* where the pattern  <head> (\d+)\s+(?:-\s+)?(.+?)...$  matches first: a head
\* word, a number and at least one more word; 0 when it matches nowhere
HeadAt(raw, heads) ==
    FindIndex([i \in 1..Len(raw) |-> i],
              {i \in 1..(Len(raw) - 2) : raw[i] \in heads /\ raw[i + 1] \in NumberWords})

\* (?:-\s+)?
AfterDash(rest) == IF Len(rest) >= 2 /\ rest[1] = "-" THEN Tail(rest) ELSE rest

\* (?:\s+in \d+ms)?(?:\s*#\s*(.*))?$
IsTrailer(ws) ==
    \/ ws = <<>>
    \/ ws = <<"in 5ms">>
    \/ Len(ws) >= 1 /\ ws[1] = "#"
    \/ Len(ws) >= 2 /\ IsTiming(ws[1]) /\ ws[2] = "#"

\* (.+?): the shortest name after which the rest of the line is a trailer
NameLen(rest) ==
    CHOOSE n \in 1..Len(rest) :
        /\ IsTrailer(SubSeq(rest, n + 1, Len(rest)))
        /\ \A k \in 1..(n - 1) : ~IsTrailer(SubSeq(rest, k + 1, Len(rest)))

\* testName.replace(/\s+in \d+ms$/, '')
StripTiming(name) ==
    IF Len(name) >= 2 /\ IsTiming(name[Len(name)]) THEN SubSeq(name, 1, Len(name) - 1)
    ELSE name

\* notOkMatch[3] || ''
CommentOf(trailer) ==
    IF trailer # <<>> /\ trailer[1] = "#" THEN Text(Tail(trailer))
    ELSE IF Len(trailer) >= 2 /\ trailer[2] = "#" THEN Text(Tail(Tail(trailer)))
    ELSE ""

\* line.match(/Running\s+(\S+\.bats)/i) || line.match(/(\S+\.bats)/)
FileOf(raw) ==
    IF \E i \in 1..Len(raw) : IsBats(raw[i])
    THEN raw[FindIndex(raw, {w \in Range(raw) : IsBats(w)})]
    ELSE ""

\* the captures of a match whose head word is at place i
CaptureAt(raw, i, kind, rest) ==
    Line(kind, ParseInt(raw[i + 1]),
         Text(StripTiming(SubSeq(rest, 1, NameLen(rest)))),
         CommentOf(SubSeq(rest, NameLen(rest) + 1, Len(rest))),
         FileOf(raw))

\* what the patterns of the loop body capture from one line
matchLine(raw) ==
    IF HeadAt(raw, NotOkWords) # 0
    THEN CaptureAt(raw, HeadAt(raw, NotOkWords), "not ok",
                   AfterDash(SubSeq(raw, HeadAt(raw, NotOkWords) + 2, Len(raw))))
    ELSE IF HeadAt(raw, OkWords) # 0
    THEN CaptureAt(raw, HeadAt(raw, OkWords), "ok",
                   AfterDash(SubSeq(raw, HeadAt(raw, OkWords) + 2, Len(raw))))
    ELSE Line("text", 0, "", "", FileOf(raw))

\* comment.toLowerCase().includes('skip') || comment.toLowerCase().includes('todo')
IsSkipOrTodo(comment) == comment \in {"SKIP", "skip: flaky", "TODO later"}

\* A loop body that leaves a skipped 'not ok' line among the failed ones
ParseLine_SkipStaysFailed(acc, line) ==
    LET cur == IF line.bats # "" THEN line.bats ELSE acc.currentFile
    IN IF line.kind = "not ok" THEN
         IF IsSkipOrTodo(line.comment)
         THEN [acc EXCEPT !.currentFile = cur,
                          !.total = @ + 1,
                          !.failed = @ + 1,
                          !.skipped = @ + 1]
         ELSE [acc EXCEPT !.currentFile = cur,
                          !.total = @ + 1,
                          !.failed = @ + 1,
                          !.failures = Append(@, [number  |-> line.number,
                                                  name    |-> line.name,
                                                  comment |-> line.comment,
                                                  file    |-> cur])]
       ELSE IF line.kind = "ok" THEN
         [acc EXCEPT !.currentFile = cur, !.total = @ + 1, !.passed = @ + 1]
       ELSE [acc EXCEPT !.currentFile = cur]

\* the body of for (let i = 0; i < lines.length; i++), given the captures
ParseLine(acc, line) ==
    LET cur == IF line.bats # "" THEN line.bats ELSE acc.currentFile
    IN IF line.kind = "not ok" THEN
         IF IsSkipOrTodo(line.comment)
         THEN [acc EXCEPT !.currentFile = cur,
                          !.total = @ + 1,
                          !.skipped = @ + 1]
         ELSE [acc EXCEPT !.currentFile = cur,
                          !.total = @ + 1,
                          !.failed = @ + 1,
                          !.failures = Append(@, [number  |-> line.number,
                                                  name    |-> line.name,
                                                  comment |-> line.comment,
                                                  file    |-> cur])]
       ELSE IF line.kind = "ok" THEN
         [acc EXCEPT !.currentFile = cur, !.total = @ + 1, !.passed = @ + 1]
       ELSE [acc EXCEPT !.currentFile = cur]

RECURSIVE ParseLines(_, _)
ParseLines(lines, acc) ==
    IF lines = <<>> THEN acc
    ELSE ParseLines(Tail(lines), ParseLine(acc, matchLine(Head(lines))))

\* A parser that gives no result for a log without failures
parseTestFailures_NullWithoutFailures(jobId) ==
    IF jobId \notin DOMAIN jobLogs \/ jobLogs[jobId] = <<>> THEN Null
    ELSE LET r == ParseLines(jobLogs[jobId],
                             [failures |-> <<>>, total |-> 0, passed |-> 0,
                              failed |-> 0, skipped |-> 0, currentFile |-> ""])
         IN IF Len(r.failures) = 0 THEN Null
            ELSE Some([failures  |-> r.failures,
                       stats     |-> [total |-> r.total, passed |-> r.passed,
                                      failed |-> r.failed, skipped |-> r.skipped],
                       batsFiles |-> <<>>])

\* parseTestFailures(jobId): Null, or Some([failures, stats, batsFiles]);
\* batsFiles = <<>> stands for the absent property
parseTestFailures(jobId) ==
    IF jobId \notin DOMAIN jobLogs \/ jobLogs[jobId] = <<>> THEN Null
    ELSE LET r == ParseLines(jobLogs[jobId],
                             [failures |-> <<>>, total |-> 0, passed |-> 0,
                              failed |-> 0, skipped |-> 0, currentFile |-> ""])
         IN IF Len(r.failures) = 0 /\ r.total = 0 THEN Null
            ELSE Some([failures  |-> r.failures,
                       stats     |-> [total |-> r.total, passed |-> r.passed,
                                      failed |-> r.failed, skipped |-> r.skipped],
                       batsFiles |-> <<>>])

\* parseTestFailures(jobId) of the PR pipeline
parsePRTestFailures(jobId) ==
    IF jobId \notin DOMAIN jobLogs \/ jobLogs[jobId] = <<>> THEN Null
    ELSE LET r == ParseLines(jobLogs[jobId],
                             [failures |-> <<>>, total |-> 0, passed |-> 0,
                              failed |-> 0, skipped |-> 0, currentFile |-> ""])
         IN IF Len(r.failures) = 0 /\ r.total = 0 THEN Null
            ELSE Some([failures |-> r.failures,
                       stats    |-> [total |-> r.total, passed |-> r.passed,
                                     failed |-> r.failed, skipped |-> r.skipped]])

-----------------------------------------------------------------------------
(* 4.4 Failure index                                                        *)
(* An index is a function from test names to entries                        *)
(* [occurrences, totalCount, affectedJobs, uniqueJobsAffected].             *)

RetentionDays == 30

\* cutoffDate = new Date(); cutoffDate.setDate(cutoffDate.getDate() - 30)
CutoffDate == now - RetentionDays * TicksPerDay

OccKeyed(occs) == [i \in 1..Len(occs) |-> [k |-> occs[i].date, v |-> occs[i]]]

\* occurrences.filter(o => new Date(o.date) >= cutoffDate)
\*            .sort((a, b) => new Date(b.date) - new Date(a.date))
PruneAndSort(occs) ==
    Vals(SortDesc(OccKeyed(SelectSeqBy(occs, {o \in Range(occs) : o.date >= CutoffDate}))))

NewIndexEntry ==
    [occurrences |-> <<>>, totalCount |-> 0, affectedJobs |-> <<>>,
     uniqueJobsAffected |-> 0]

\* An index that appends without looking for the job id
indexFailedTest_NoDedup(idx, testName, date, jobName, jobId, runId) ==
    LET e0 == IF testName \in DOMAIN idx THEN idx[testName] ELSE NewIndexEntry
        oc == PruneAndSort(Append(e0.occurrences,
                  [date |-> date, jobName |-> jobName, jobId |-> jobId, runId |-> runId]))
    IN (testName :> [e0 EXCEPT !.occurrences = oc, !.totalCount = Len(oc)]) @@ idx

\* An index that counts what it pushes and neither sorts nor counts again
indexFailedTest_CountPushes(idx, testName, date, jobName, jobId, runId) ==
    LET e0 == IF testName \in DOMAIN idx THEN idx[testName] ELSE NewIndexEntry
        existing == \E i \in 1..Len(e0.occurrences) : e0.occurrences[i].jobId = jobId
        pushed == IF existing THEN e0.occurrences
                  ELSE Append(e0.occurrences,
                         [date |-> date, jobName |-> jobName, jobId |-> jobId,
                          runId |-> runId])
    IN (testName :> [e0 EXCEPT
                        !.occurrences = SelectSeqBy(pushed,
                                            {o \in Range(pushed) : o.date >= CutoffDate}),
                        !.totalCount = IF existing THEN @ ELSE @ + 1]) @@ idx

\* indexFailedTest(testName, date, jobName, jobId, runId) applied to index idx
indexFailedTest(idx, testName, date, jobName, jobId, runId) ==
    LET e0 == IF testName \in DOMAIN idx THEN idx[testName] ELSE NewIndexEntry
        existing == \E i \in 1..Len(e0.occurrences) : e0.occurrences[i].jobId = jobId
        pushed == IF existing THEN e0.occurrences
                  ELSE Append(e0.occurrences,
                         [date |-> date, jobName |-> jobName, jobId |-> jobId,
                          runId |-> runId])
        oc == PruneAndSort(pushed)
    IN (testName :> [e0 EXCEPT !.occurrences = oc, !.totalCount = Len(oc)]) @@ idx

-----------------------------------------------------------------------------
(* Job names and their conversions                                          *)

Lowers == <<"a","b","c","d","e","f","g","h","i","j","k","l","m",
            "n","o","p","q","r","s","t","u","v","w","x","y","z">>
Uppers == <<"A","B","C","D","E","F","G","H","I","J","K","L","M",
            "N","O","P","Q","R","S","T","U","V","W","X","Y","Z">>
Digits == <<"0","1","2","3","4","5","6","7","8","9">>

\* The characters of the model in increasing UTF-16 code unit order
CodeOrder == <<" ", "(", ")", ",", "-", "/">> \o Digits \o Uppers \o <<"_">> \o Lowers

Code(c) == CHOOSE i \in 1..Len(CodeOrder) : CodeOrder[i] = c

\* String.prototype.toLowerCase, one character
ToLower(c) ==
    IF \E i \in 1..Len(Uppers) : Uppers[i] = c
    THEN Lowers[CHOOSE i \in 1..Len(Uppers) : Uppers[i] = c]
    ELSE c

\* /[a-zA-Z0-9]/
IsAlnum(c) == c \in Range(Lowers) \cup Range(Uppers) \cup Range(Digits)

\* jobName.replace(/[^a-zA-Z0-9]/g, '-').toLowerCase()
TestId(jobName) ==
    [i \in 1..Len(jobName) |-> IF IsAlnum(jobName[i]) THEN ToLower(jobName[i]) ELSE "-"]

\* a < b for strings (the default order of Array.prototype.sort)
RECURSIVE StrLess(_, _)
StrLess(a, b) ==
    IF b = <<>> THEN FALSE
    ELSE IF a = <<>> THEN TRUE
    ELSE IF Head(a) = Head(b) THEN StrLess(Tail(a), Tail(b))
    ELSE Code(Head(a)) < Code(Head(b))

\* Array.from(set).sort() for a set of strings
RECURSIVE SortedNames(_)
SortedNames(S) ==
    IF S = {} THEN <<>>
    ELSE LET m == CHOOSE x \in S : \A y \in S \ {x} : StrLess(x, y)
         IN <<m>> \o SortedNames(S \ {m})

-----------------------------------------------------------------------------
(* 4.3 Weather history builder (sections)                                   *)

WeatherDays == 10

JobsKeyed(js) == [i \in 1..Len(js) |-> [k |-> js[i].started_at, v |-> js[i]]]

\* The runs of a job in the order of the file
MatchingJobs_FileOrder(jobName) ==
    SelectSeqBy(allJobs, {j \in Range(allJobs) : j.name = jobName})

\* allJobs.filter(job => job.name === jobName)
\*        .sort((a, b) => new Date(b.started_at) - new Date(a.started_at))
MatchingJobs(jobName) ==
    Vals(SortDesc(JobsKeyed(SelectSeqBy(allJobs, {j \in Range(allJobs) : j.name = jobName}))))

\* matchingJobs.filter(job => jobDate.toDateString() === date.toDateString())
DayJobs(matching, date) ==
    SelectSeqBy(matching,
        {j \in Range(matching) : toDateString(j.started_at) = toDateString(date)})

\* getFailedStep(job): the display text of the failed step, as a list of parts
getFailedStep(job) ==
    IF IsNull(job.steps) THEN <<"Unknown step">>
    ELSE IF IsNull(FirstFailedStep(job)) \/ Val(FirstFailedStep(job)).name = ""
         THEN <<"Run tests">>
         ELSE <<Val(FirstFailedStep(job)).name>>

\* f.file.replace(/^##\[group\]/, '').trim()
CleanFile(file) ==
    CASE file = "##[group]a.bats" -> "a.bats"
      [] file = "##[group]"       -> ""
      [] OTHER                    -> file

\* the distinct cleaned files of the failures, in order of first appearance
RECURSIVE BatsFiles(_, _)
BatsFiles(failures, acc) ==
    IF failures = <<>> THEN acc
    ELSE LET f == Head(failures).file
             c == CleanFile(f)
         IN BatsFiles(Tail(failures),
                      IF f # "" /\ c # "" /\ c \notin Range(acc) THEN Append(acc, c) ELSE acc)

\* failures.forEach(f => indexFailedTest(f.name, date, displayName, jobId, runId))
RECURSIVE IndexFailures(_, _, _, _, _, _)
IndexFailures(idx, failures, date, jobName, jobId, runId) ==
    IF failures = <<>> THEN idx
    ELSE IndexFailures(indexFailedTest(idx, Head(failures).name, date, jobName, jobId, runId),
                       Tail(failures), date, jobName, jobId, runId)

\* getCachedWeatherHistory(sectionId, testId) on the cache object: the place
\* <<section index, test index>> of the weather history it returns, or <<>>
CachedWeatherPath(cache, sectionId, testId) ==
    IF IsNull(cache) THEN <<>>
    ELSE LET secs == Val(cache).sections
             si   == FindIndex(secs, {x \in Range(secs) : x.id = sectionId})
         IN IF si = 0 THEN <<>>
            ELSE LET ti == FindIndex(secs[si].tests,
                                     {t \in Range(secs[si].tests) : t.id = testId})
                 IN IF ti = 0 THEN <<>> ELSE <<si, ti>>

\* the weather history at a place of the cache object (Null for no place)
getCachedWeatherHistory(cache, path) ==
    IF path = <<>> THEN Null
    ELSE Some(Val(cache).sections[path[1]].tests[path[2]].weatherHistory)

\* cachedWeather.find(c => new Date(c.date).toDateString() === date.toDateString())
CachedDayIndex(cachedWeather, date) ==
    IF IsNull(cachedWeather) THEN 0
    ELSE FindIndex(Val(cachedWeather),
                   {c \in Range(Val(cachedWeather)) : toDateString(c.date) = toDateString(date)})


\* dayFailures.batsFiles = batsFiles on the failureDetails object of a cached
\* day: the object belongs to the cache, which is changed in place
SetCachedBatsFiles(cache, path, ci, batsFiles) ==
    LET fd == Val(cache).sections[path[1]].tests[path[2]].weatherHistory[ci].failureDetails
    IN Some([Val(cache) EXCEPT
             !.sections[path[1]].tests[path[2]].weatherHistory[ci].failureDetails =
                 Some([Val(fd) EXCEPT !.batsFiles = batsFiles])])

\* failureStepDisplay of a day
FailureStepDisplay(dayStatus, dayFailures, dayStepName) ==
    IF dayStatus = "failed"
    THEN IF ~IsNull(dayFailures) /\ Val(dayFailures).batsFiles # <<>>
         THEN Val(dayFailures).batsFiles
         ELSE IF dayStepName = <<>> THEN <<"Run tests">> ELSE dayStepName
    ELSE <<>>

\* dayJobs.find(j => j.steps?.some(s => fatalStepPatterns.some(p => p.test(s.name))))
DayJob(matching, date) ==
    LET dayJobs == DayJobs(matching, date)
        di      == FindIndex(dayJobs, {j \in Range(dayJobs) : HasFatalStep(j)})
    IN IF di = 0 THEN Null ELSE Some(dayJobs[di])

\* Failures of a failed day that come from the cached day when it has some
DayJobFailures_CacheFirst(dayJob, cachedWeather, ci) ==
    LET isFailed  == ~IsNull(dayJob) /\ determineStatus(dayJob) = "failed"
        fromCache == /\ isFailed /\ ci # 0
                     /\ ~IsNull(Val(cachedWeather)[ci].failureDetails)
    IN [found     |-> IF fromCache THEN Val(cachedWeather)[ci].failureDetails
                      ELSE IF isFailed THEN parseTestFailures(Val(dayJob).id)
                      ELSE Null,
        fromCache |-> fromCache]

\* The failures of a failed day: parseTestFailures(dayJob.id), or the
\* failureDetails of the cached day when the log gives nothing.
\* [found, fromCache]
DayJobFailures(dayJob, cachedWeather, ci) ==
    LET isFailed  == ~IsNull(dayJob) /\ determineStatus(dayJob) = "failed"
        parsed    == IF isFailed THEN parseTestFailures(Val(dayJob).id) ELSE Null
        fromCache == /\ isFailed /\ IsNull(parsed) /\ ci # 0
                     /\ ~IsNull(Val(cachedWeather)[ci].failureDetails)
    IN [found     |-> IF ~IsNull(parsed) THEN parsed
                      ELSE IF fromCache THEN Val(cachedWeather)[ci].failureDetails
                      ELSE Null,
        fromCache |-> fromCache]

\* dayStatus of a day
DayStatus(dayJob, dayRawStatus, useCachedDay, cachedWeather, ci) ==
    IF ~IsNull(dayJob)
    THEN CASE dayRawStatus = "passed" -> "passed"
           [] dayRawStatus = "failed" -> "failed"
           [] dayRawStatus = "not_run_setup_failed" -> "not_run"
           [] OTHER -> "none"
    ELSE IF useCachedDay THEN Val(cachedWeather)[ci].status ELSE "none"

\* dayFailures of a day
DayFailures(isFailed, found, batsFiles, useCachedDay, cachedWeather, ci) ==
    IF isFailed
    THEN IF ~IsNull(found) /\ batsFiles # <<>>
         THEN Some([Val(found) EXCEPT !.batsFiles = batsFiles])
         ELSE found
    ELSE IF useCachedDay THEN Val(cachedWeather)[ci].failureDetails ELSE Null

\* weatherHistory.push({...}): the entry of a day
WeatherDay(date, dayJob, dayStatus, dayFailures, dayStepName) ==
    [date           |-> date,
     status         |-> dayStatus,
     runId          |-> IF IsNull(dayJob) THEN "null" ELSE Val(dayJob).workflow_run_id,
     jobId          |-> IF IsNull(dayJob) THEN "null" ELSE Val(dayJob).id,
     failureStep    |-> FailureStepDisplay(dayStatus, dayFailures, dayStepName),
     failureDetails |-> dayFailures]

\* The loop body once the job of the day, the cached day and the failures
\* are known
SectionDayOf(st, path, displayName, date, dayJob, cachedWeather, ci, jf) ==
    LET isFailed     == ~IsNull(dayJob) /\ determineStatus(dayJob) = "failed"
        batsFiles    == IF IsNull(jf.found) THEN <<>>
                        ELSE BatsFiles(Val(jf.found).failures, <<>>)
        useCachedDay == IsNull(dayJob) /\ ci # 0
        dayStepName  ==
            IF isFailed THEN getFailedStep(Val(dayJob))
            ELSE IF useCachedDay THEN Val(cachedWeather)[ci].failureStep ELSE <<>>
    IN [wh    |-> Append(st.wh,
                    WeatherDay(date, dayJob,
                        DayStatus(dayJob, determineStatus(dayJob), useCachedDay,
                                  cachedWeather, ci),
                        DayFailures(isFailed, jf.found, batsFiles, useCachedDay,
                                    cachedWeather, ci),
                        dayStepName)),
        idx   |-> IF IsNull(jf.found) THEN st.idx
                  ELSE IndexFailures(st.idx, Val(jf.found).failures, date, displayName,
                                     Val(dayJob).id, Val(dayJob).workflow_run_id),
        cache |-> IF jf.fromCache /\ batsFiles # <<>>
                  THEN SetCachedBatsFiles(st.cache, path, ci, batsFiles)
                  ELSE st.cache]

\* One pass of the loop body for (let i = 0; i < 10; i++) of a section job.
\* st = [wh, idx, cache]: the history so far, the failure index, the cache.
SectionDay(st, path, displayName, matching, date) ==
    LET cachedWeather == getCachedWeatherHistory(st.cache, path)
        ci            == CachedDayIndex(cachedWeather, date)
        dayJob        == DayJob(matching, date)
    IN SectionDayOf(st, path, displayName, date, dayJob, cachedWeather, ci,
                    DayJobFailures(dayJob, cachedWeather, ci))

\* the days of the window, oldest first: date = anchor - (9 - i) days, midnight
WindowDate(anchorDay, i) == Midnight(anchorDay - ((WeatherDays - 1) - i))

\* for (let i = 0; i < 10; i++) { ... weatherHistory.push(...) }
SectionDays(st, path, displayName, matching, anchorDay, i) ==
    LET RECURSIVE Go(_, _)
        Go(s, k) == IF k >= WeatherDays THEN s
                    ELSE Go(SectionDay(s, path, displayName, matching,
                                       WindowDate(anchorDay, k)), k + 1)
    IN Go(st, i)

\* matchingJobs.some(j => started today && conclusion is success or failure)
HasRunToday(matching) ==
    \E i \in 1..Len(matching) :
        /\ toDateString(matching[i].started_at) = toDateString(now)
        /\ matching[i].conclusion \in {"success", "failure"}

\* anchorDate of a section job: today, or yesterday when no run completed today
AnchorDay(matching) ==
    IF HasRunToday(matching) THEN toDateString(now) ELSE toDateString(now) - 1

CountFailed(wh) == Cardinality({i \in 1..Len(wh) : wh[i].status = "failed"})

\* The test of a section job, given its runs and its weather history
SectionJobTest(jobConfig, latestJob, weatherHistory) ==
    [id             |-> TestId(jobConfig.name),
     name           |-> IF jobConfig.description = <<>> THEN jobConfig.name
                        ELSE jobConfig.description,
     jobName        |-> jobConfig.name,
     status         |-> DisplayStatus(determineStatus(latestJob)),
     weatherHistory |-> weatherHistory,
     failureCount   |-> CountFailed(weatherHistory),
     aliasedFrom    |-> <<>>]

\* the test pushed, the index and the cache as the day loop leaves them
AddSectionTest(tests, jobConfig, matching, built) ==
    [tests |-> Append(tests,
                      SectionJobTest(jobConfig,
                                     IF matching = <<>> THEN Null ELSE Some(matching[1]),
                                     built.wh)),
     idx   |-> built.idx,
     cache |-> built.cache]

\* The days of a section job, given its runs
SectionJobDays(st, sectionId, jobConfig, matching) ==
    SectionDays([wh |-> <<>>, idx |-> st.idx, cache |-> st.cache],
                CachedWeatherPath(st.cache, sectionId, TestId(jobConfig.name)),
                IF jobConfig.description = <<>> THEN jobConfig.name
                ELSE jobConfig.description,
                matching, AnchorDay(matching), 0)

\* The body of sectionJobs.map(jobConfig => ...): builds one test.
\* st = [tests, idx, cache]
SectionTest(st, sectionId, jobConfig) ==
    AddSectionTest(st.tests, jobConfig, MatchingJobs(jobConfig.name),
                   SectionJobDays(st, sectionId, jobConfig, MatchingJobs(jobConfig.name)))

RECURSIVE SectionTests(_, _, _)
SectionTests(st, sectionId, jobs) ==
    IF jobs = <<>> THEN st
    ELSE SectionTests(SectionTest(st, sectionId, Head(jobs)), sectionId, Tail(jobs))

\* the section pushed, the index and the cache as its jobs leave them
AddSection(secs, sectionId, r) ==
    [secs  |-> Append(secs, [id |-> sectionId, tests |-> r.tests]),
     idx   |-> r.idx,
     cache |-> r.cache]

\* (config.sections || []).map(sectionConfig => ...); st = [secs, idx, cache]
RECURSIVE BuildSections(_, _)
BuildSections(st, sectionConfigs) ==
    IF sectionConfigs = <<>> THEN st
    ELSE BuildSections(
           AddSection(st.secs, Head(sectionConfigs).id,
                      SectionTests([tests |-> <<>>, idx |-> st.idx, cache |-> st.cache],
                                   Head(sectionConfigs).id, Head(sectionConfigs).jobs)),
           Tail(sectionConfigs))

-----------------------------------------------------------------------------
(* enrichFailedTestsIndex                                                   *)

\* the job names of the occurrences, in order of first appearance
RECURSIVE JobNamesOf(_, _)
JobNamesOf(occs, acc) ==
    IF occs = <<>> THEN acc
    ELSE JobNamesOf(Tail(occs),
                    IF Head(occs).jobName \in Range(acc) THEN acc
                    ELSE Append(acc, Head(occs).jobName))

\* An entry of jobBreakdown that reports the date of the last occurrence
AffectedJob_LastDate(occs, jobName) ==
    LET mine == SelectSeqBy(occs, {o \in Range(occs) : o.jobName = jobName})
    IN [k |-> Len(mine),
        v |-> [jobName    |-> jobName,
               count      |-> Len(mine),
               latestDate |-> mine[Len(mine)].date,
               jobIds     |-> [i \in 1..Len(mine) |-> mine[i].jobId]]]

\* the entry of jobBreakdown for one job name, keyed by its count
AffectedJob(occs, jobName) ==
    LET mine == SelectSeqBy(occs, {o \in Range(occs) : o.jobName = jobName})
    IN [k |-> Len(mine),
        v |-> [jobName    |-> jobName,
               count      |-> Len(mine),
               latestDate |-> mine[1].date,
               jobIds     |-> [i \in 1..Len(mine) |-> mine[i].jobId]]]

EnrichEntry(entry) ==
    LET names    == JobNamesOf(entry.occurrences, <<>>)
        affected == Vals(SortDesc([i \in 1..Len(names) |->
                                      AffectedJob(entry.occurrences, names[i])]))
    IN [entry EXCEPT !.affectedJobs = affected, !.uniqueJobsAffected = Len(affected)]

\* enrichFailedTestsIndex() applied to index idx
enrichFailedTestsIndex(idx) == [t \in DOMAIN idx |-> EnrichEntry(idx[t])]

-----------------------------------------------------------------------------
(* "All Jobs" section                                                       *)

\* getAllUniqueJobNames()
getAllUniqueJobNames == SortedNames({allJobs[i].name : i \in 1..Len(allJobs)})

\* simplifyJobName(fullName): the part after the last " / "
simplifyJobName(fullName) ==
    LET seps == {i \in 1..(Len(fullName) - 2) :
                    SubSeq(fullName, i, i + 2) = <<" ", "/", " ">>}
    IN IF seps = {} THEN fullName
       ELSE LET last == CHOOSE i \in seps : \A k \in seps : k <= i
            IN SubSeq(fullName, last + 3, Len(fullName))

\* configuredJobsFromSections.get(jobName): the last test of the sections
\* with that job name, or Null
ConfiguredTest(secs, jobName) ==
    LET all == UNION {{<<si, ti>> : ti \in {k \in 1..Len(secs[si].tests) :
                                                secs[si].tests[k].jobName = jobName}} :
                       si \in 1..Len(secs)}
    IN IF all = {} THEN Null
       ELSE LET last == CHOOSE p \in all :
                            \A q \in all : q[1] < p[1] \/ (q[1] = p[1] /\ q[2] <= p[2])
            IN Some(secs[last[1]].tests[last[2]])

\* [...jobs].sort((a, b) => (a.run_attempt || 1) - (b.run_attempt || 1))[0]
FirstAttempt(jobs) ==
    Vals(SortDesc([i \in 1..Len(jobs) |-> [k |-> 0 - jobs[i].run_attempt, v |-> jobs[i]]]))[1]

\* the key under which the "All Jobs" builder looks a log up: it passes the
\* content of the log file where parseTestFailures expects a job id
LogContentAsKey(jobId) == "<the text of the log file>"

\* the current status of a job that is in no section
AllJobsStatus(latestJob) ==
    IF IsNull(latestJob) THEN "not_run"
    ELSE LET j == Val(latestJob) IN
      IF j.conclusion = "success" THEN "passed"
      ELSE IF j.conclusion = "failure" THEN
        IF ~IsNull(FirstFailedStep(j))
        THEN IF IsFatalStepName(Val(FirstFailedStep(j)).name) THEN "failed" ELSE "not_run"
        ELSE "failed"
      ELSE IF j.status = "in_progress" \/ j.status = "queued" THEN "running"
      ELSE "not_run"

\* One pass of the loop body for (let i = 0; i < 10; i++) of a job that is in
\* no section
AllJobsDay(matching, date) ==
    LET dayJobs == DayJobs(matching, date)
        dayJob  == IF dayJobs = <<>> THEN Null
                   ELSE Some(FirstAttempt(SelectSeqBy(dayJobs,
                            {j \in Range(dayJobs) :
                                j.workflow_run_id = dayJobs[1].workflow_run_id})))
        isFailed == ~IsNull(dayJob) /\ Val(dayJob).conclusion = "failure"
        dayStatus == IF IsNull(dayJob) THEN "none"
                     ELSE IF Val(dayJob).conclusion = "success" THEN "passed"
                     ELSE IF Val(dayJob).conclusion = "failure" THEN "failed"
                     ELSE "none"
        stepName == IF isFailed /\ ~IsNull(FirstFailedStep(Val(dayJob)))
                    THEN <<Val(FirstFailedStep(Val(dayJob))).name>> ELSE <<>>
        parsed   == IF isFailed /\ Val(dayJob).id \in DOMAIN jobLogs
                    THEN parseTestFailures(LogContentAsKey(Val(dayJob).id))
                    ELSE Null
        useParsed == ~IsNull(parsed) /\ Len(Val(parsed).failures) > 0
    IN [date           |-> date,
        status         |-> dayStatus,
        runId          |-> IF IsNull(dayJob) THEN "null" ELSE Val(dayJob).workflow_run_id,
        jobId          |-> IF IsNull(dayJob) THEN "null" ELSE Val(dayJob).id,
        failureStep    |-> IF useParsed /\ Val(parsed).batsFiles # <<>>
                           THEN Val(parsed).batsFiles ELSE stepName,
        failureDetails |-> IF useParsed THEN parsed ELSE Null]

\* A test of the "All Jobs" section for one job name, given the sections
AllJobsTest(secs, jobName) ==
    LET existingTest == ConfiguredTest(secs, jobName)
        matching     == MatchingJobs(jobName)
        latestJob    == IF matching = <<>> THEN Null
                        ELSE Some(FirstAttempt(SelectSeqBy(matching,
                                 {j \in Range(matching) :
                                     j.workflow_run_id = matching[1].workflow_run_id})))
        wh == [i \in 1..WeatherDays |->
                  AllJobsDay(matching, WindowDate(toDateString(now), i - 1))]
    IN IF ~IsNull(existingTest)
       THEN [Val(existingTest) EXCEPT !.id = TestId(jobName),
                                      !.name = simplifyJobName(jobName),
                                      !.jobName = jobName]
       ELSE [id             |-> TestId(jobName),
             name           |-> simplifyJobName(jobName),
             jobName        |-> jobName,
             status         |-> AllJobsStatus(latestJob),
             weatherHistory |-> wh,
             failureCount   |-> CountFailed(wh),
             aliasedFrom    |-> <<>>]

\* allJobsSection.tests
BuildAllJobs(secs) ==
    [i \in 1..Len(getAllUniqueJobNames) |-> AllJobsTest(secs, getAllUniqueJobNames[i])]

-----------------------------------------------------------------------------
(* 4.5 Rename detection                                                     *)

RenameDays == 3
RecentDays == 5

\* the number of positions at which the lowercased strings agree
Matches(shorter, longer) ==
    Cardinality({i \in 1..Len(shorter) : ToLower(longer[i]) = ToLower(shorter[i])})

\* A similarity over the length of the shorter string
stringSimilarity_OverShorter(str1, str2) ==
    IF str1 = <<>> \/ str2 = <<>> THEN <<0, 1>>
    ELSE IF str1 = str2 THEN <<1, 1>>
    ELSE LET longer  == IF Len(str1) > Len(str2) THEN str1 ELSE str2
             shorter == IF Len(str1) > Len(str2) THEN str2 ELSE str1
         IN <<Matches(shorter, longer), Len(shorter)>>

\* stringSimilarity(str1, str2) as the fraction <<numerator, denominator>>
stringSimilarity(str1, str2) ==
    IF str1 = <<>> \/ str2 = <<>> THEN <<0, 1>>
    ELSE IF str1 = str2 THEN <<1, 1>>
    ELSE LET longer  == IF Len(str1) > Len(str2) THEN str1 ELSE str2
             shorter == IF Len(str1) > Len(str2) THEN str2 ELSE str1
         IN <<Matches(shorter, longer), Len(longer)>>

\* commonPrefixLength(str1, str2)
commonPrefixLength(str1, str2) ==
    LET n == IF Len(str1) < Len(str2) THEN Len(str1) ELSE Len(str2)
        same == {i \in 0..n : \A k \in 1..i : str1[k] = str2[k]}
    IN CHOOSE i \in same : \A k \in same : k <= i

\* Math.round(similarity * 100)
SimilarityPercent(sim) == (200 * sim[1] + sim[2]) \div (2 * sim[2])

\* similarity > 0.7 || prefixRatio > 0.6
IsRenameCandidate(oldName, newName) ==
    LET sim    == stringSimilarity(oldName, newName)
        minLen == IF Len(oldName) < Len(newName) THEN Len(oldName) ELSE Len(newName)
    IN \/ 10 * sim[1] > 7 * sim[2]
       \/ 10 * commonPrefixLength(oldName, newName) > 6 * minLen

\* the entries of a Map filled by set(name, entry) in the order of s: an
\* entry keeps the place of the first set of its name and the value of the last
MapEntries(s) ==
    LET firsts == SelectSeqBy([i \in 1..Len(s) |-> i],
                     {i \in 1..Len(s) : \A k \in 1..(i - 1) : s[k].name # s[i].name})
    IN [n \in 1..Len(firsts) |->
          LET lastI == CHOOSE i \in 1..Len(s) :
                          /\ s[i].name = s[firsts[n]].name
                          /\ \A k \in (i + 1)..Len(s) : s[k].name # s[i].name
          IN s[lastI]]

NamedHistories(tests) ==
    [i \in 1..Len(tests) |-> [name |-> tests[i].jobName,
                              weatherHistory |-> tests[i].weatherHistory]]

RECURSIVE Flatten(_)
Flatten(ss) == IF ss = <<>> THEN <<>> ELSE Head(ss) \o Flatten(Tail(ss))

\* currentJobs: the tests of the "All Jobs" section with a day that is not 'none'
CurrentJobs(tests) ==
    SelectSeqBy(NamedHistories(tests),
        {t \in Range(NamedHistories(tests)) :
            \E i \in 1..Len(t.weatherHistory) : t.weatherHistory[i].status # "none"})

\* cachedJobs: the tests of the cached "All Jobs" section, then the tests of
\* the cached sections whose name is not there yet
CachedJobs(cache) ==
    IF IsNull(cache) THEN <<>>
    ELSE LET fromAll  == MapEntries(NamedHistories(Val(cache).allJobsSection))
             fromSecs == Flatten([i \in 1..Len(Val(cache).sections) |->
                                     NamedHistories(Val(cache).sections[i].tests)])
             fresh    == SelectSeqBy(fromSecs,
                            {t \in Range(fromSecs) :
                                \A k \in 1..Len(fromAll) : fromAll[k].name # t.name})
             firstOf  == SelectSeqBy([i \in 1..Len(fresh) |-> i],
                            {i \in 1..Len(fresh) :
                                \A k \in 1..(i - 1) : fresh[k].name # fresh[i].name})
         IN fromAll \o [n \in 1..Len(firstOf) |-> fresh[firstOf[n]]]

\* cachedJob.weatherHistory?.slice(-5).some(w => w.status !== 'none')
HadRecentActivity(wh) ==
    \E i \in 1..Len(wh) : i > Len(wh) - RecentDays /\ wh[i].status # "none"

\* Disappeared jobs without the check of recent activity
DisappearedJobs_AnyCached(current, cached) ==
    SelectSeqBy(cached,
        {c \in Range(cached) : \A k \in 1..Len(current) : current[k].name # c.name})

\* disappearedJobs
DisappearedJobs(current, cached) ==
    SelectSeqBy(cached,
        {c \in Range(cached) :
            /\ \A k \in 1..Len(current) : current[k].name # c.name
            /\ HadRecentActivity(c.weatherHistory)})

\* notARename.some(entry => entry.old === oldName && entry.new === newName)
IsExcluded(oldName, newName) ==
    \E i \in 1..Len(config.not_a_rename) :
        config.not_a_rename[i].old = oldName /\ config.not_a_rename[i].new = newName

\* the renames detected afresh: for each new job, for each disappeared job
FreshRenames(tests, cache) ==
    LET current     == CurrentJobs(tests)
        cached      == CachedJobs(cache)
        disappeared == DisappearedJobs(current, cached)
        newJobs     == SelectSeqBy(current,
                          {c \in Range(current) :
                              \A k \in 1..Len(cached) : cached[k].name # c.name})
        pairs == Flatten([n \in 1..Len(newJobs) |->
                    [d \in 1..Len(disappeared) |->
                        [oldName           |-> disappeared[d].name,
                         newName           |-> newJobs[n].name,
                         similarity        |-> SimilarityPercent(
                             stringSimilarity(disappeared[d].name, newJobs[n].name)),
                         detectedDate      |-> now,
                         oldWeatherHistory |-> disappeared[d].weatherHistory]]])
    IN SelectSeqBy(pairs,
          {r \in Range(pairs) :
              ~IsExcluded(r.oldName, r.newName) /\ IsRenameCandidate(r.oldName, r.newName)})

\* A carry forward without the expiry
CarryForward_NoExpiry(detected, old) ==
    detected \o SelectSeqBy(old,
        {r \in Range(old) :
            \A i \in 1..Len(detected) :
                ~(detected[i].oldName = r.oldName /\ detected[i].newName = r.newName)})

\* the renames of the previous snapshot that are carried forward
RECURSIVE CarryForward(_, _)
CarryForward(detected, old) ==
    IF old = <<>> THEN detected
    ELSE LET r == Head(old)
             keep == /\ r.detectedDate > now - RenameDays * TicksPerDay
                     /\ \A i \in 1..Len(detected) :
                            ~(detected[i].oldName = r.oldName /\ detected[i].newName = r.newName)
         IN CarryForward(IF keep THEN Append(detected, r) ELSE detected, Tail(old))

\* detectRenames(allJobsSection, cachedData)
detectRenames(tests, cache) ==
    CarryForward(FreshRenames(tests, cache),
                 IF IsNull(cache) THEN <<>> ELSE Val(cache).detectedRenames)

\* A merge that lets the old history win wherever it has a status
mergeWeatherHistory_OldWins(newHistory, oldHistory) ==
    LET RECURSIVE Go(_, _)
        Go(merged, old) ==
            IF old = <<>> THEN merged
            ELSE LET oldDay == Head(old)
                     idx == FindIndex(merged, {d \in Range(merged) :
                               toDateString(d.date) = toDateString(oldDay.date)})
                 IN Go(IF idx # 0 /\ oldDay.status # "none"
                       THEN [merged EXCEPT ![idx] = oldDay] ELSE merged,
                       Tail(old))
    IN Go(newHistory, oldHistory)

\* A merge that appends the old days it cannot place
mergeWeatherHistory_Append(newHistory, oldHistory) ==
    LET RECURSIVE Go(_, _)
        Go(merged, old) ==
            IF old = <<>> THEN merged
            ELSE LET oldDay == Head(old)
                     idx == FindIndex(merged, {d \in Range(merged) :
                               toDateString(d.date) = toDateString(oldDay.date)})
                 IN Go(IF idx # 0 /\ merged[idx].status = "none" /\ oldDay.status # "none"
                       THEN [merged EXCEPT ![idx] = oldDay]
                       ELSE IF idx = 0 THEN Append(merged, oldDay) ELSE merged,
                       Tail(old))
    IN Go(newHistory, oldHistory)

\* mergeWeatherHistory(newHistory, oldHistory)
mergeWeatherHistory(newHistory, oldHistory) ==
    LET RECURSIVE Go(_, _)
        Go(merged, old) ==
            IF old = <<>> THEN merged
            ELSE LET oldDay == Head(old)
                     idx == FindIndex(merged, {d \in Range(merged) :
                               toDateString(d.date) = toDateString(oldDay.date)})
                 IN Go(IF idx # 0 /\ merged[idx].status = "none" /\ oldDay.status # "none"
                       THEN [merged EXCEPT ![idx] = oldDay] ELSE merged,
                       Tail(old))
    IN Go(newHistory, oldHistory)

\* the first test with the job name gets the old history merged in
AliasIn(tests, rename) ==
    LET i == FindIndex(tests, {t \in Range(tests) : t.jobName = rename.newName})
    IN IF i = 0 THEN tests
       ELSE [tests EXCEPT ![i] =
               [@ EXCEPT !.weatherHistory =
                            mergeWeatherHistory(@, rename.oldWeatherHistory),
                         !.aliasedFrom = rename.oldName]]

\* detectedRenames.forEach(rename => ...): st = [all, secs]
RECURSIVE ApplyRenames(_, _)
ApplyRenames(st, renames) ==
    IF renames = <<>> THEN st
    ELSE ApplyRenames(
           [all  |-> AliasIn(st.all, Head(renames)),
            secs |-> [i \in 1..Len(st.secs) |->
                        [st.secs[i] EXCEPT !.tests = AliasIn(@, Head(renames))]]],
           Tail(renames))

-----------------------------------------------------------------------------
(* Inputs of the nightly pipeline                                           *)

\* raw job runs in raw-runs.json
MaxRaw == 2

\* processing runs in a behaviour
MaxRuns == 2

\* the day of the first run: late enough for a date older than the retention
Today0 == 2 * RetentionDays
Now0   == Midnight(Today0) + 2

NameA  == <<"r", "u", "n", "-", "a">>
NameA2 == <<"r", "u", "n", "_", "a">>
NameB  == <<"r", "u", "n", "-", "b">>

Step(name, conclusion) == [name |-> name, conclusion |-> conclusion]

StepsPass      == Some(<<Step("Build image", "success"), Step("Run tests", "success")>>)
StepsTestFail  == Some(<<Step("Build image", "success"), Step("Run tests", "failure")>>)
StepsSetupFail == Some(<<Step("Build image", "failure"), Step("Run tests", "skipped")>>)
StepsSetupOnly == Some(<<Step("Build image", "failure")>>)
StepsRunning   == Some(<<Step("Build image", "success"), Step("Run tests", "null")>>)

RawJob(id, name, daysAgo, tick, status, conclusion, steps, attempt, wf) ==
    [id |-> id, name |-> name,
     started_at |-> Midnight(Today0 - daysAgo) + tick,
     status |-> status, conclusion |-> conclusion, steps |-> steps,
     run_attempt |-> attempt, workflow_run_id |-> wf]

\* the job runs a raw-runs.json is drawn from, in file order
RawPool ==
    << RawJob("j1",  NameA,  0, 0, "completed",   "success", StepsPass,      1, "w1"),
       RawJob("j2",  NameA,  0, 1, "completed",   "failure", StepsTestFail,  2, "w1"),
       RawJob("j3",  NameA,  1, 0, "completed",   "failure", StepsTestFail,  1, "w2"),
       RawJob("j4",  NameA,  1, 1, "completed",   "failure", StepsSetupFail, 2, "w2"),
       RawJob("j5",  NameA,  0, 1, "in_progress", "null",    StepsRunning,   1, "w3"),
       RawJob("j6",  NameB,  0, 0, "completed",   "failure", StepsSetupOnly, 1, "w4"),
       RawJob("j7",  NameB,  1, 1, "completed",   "success", StepsPass,      2, "w5"),
       RawJob("j8",  NameB,  1, 0, "completed",   "failure", StepsTestFail,  1, "w5"),
       RawJob("j9",  NameA2, 2, 0, "completed",   "success", StepsPass,      1, "w6"),
       RawJob("j10", NameB,  0, 1, "completed",   "failure", StepsSetupFail, 1, "w7"),
       RawJob("j11", NameA,  1, 2, "completed",   "failure", StepsSetupOnly, 1, "w8"),
       RawJob("j12", NameA,  1, 3, "completed",   "failure", StepsTestFail,  1, "w9") >>

\* the logs downloaded for the failed jobs (job j3 has none)
LogPool ==
    [j \in {"j2", "j6", "j8", "j10", "j12"} |->
        CASE j = "j2"  -> << <<"##[group]a.bats">>,
                             <<"not ok", "1", "t1">>,
                             <<"ok", "2", "t2">> >>
          [] j = "j8"  -> << <<"not ok", "1", "t1">>,
                             <<"not ok", "2", "t2", "#", "SKIP">>,
                             <<"not ok", "3", "t3">> >>
          [] j = "j6"  -> << <<"not ok", "1", "t3">> >>
          [] j = "j10" -> << <<"Error:", "image", "pull", "failed">> >>
          [] j = "j12" -> << <<"a.bats">>, <<"not ok", "2", "t2">> >>]

\* the sub-sequences of the pool with at most MaxRaw runs
RawChoices ==
    {SelectSeqBy(RawPool, S) : S \in {T \in SUBSET Range(RawPool) : Cardinality(T) <= MaxRaw}}

JobCfg(name) == [name |-> name, description |-> <<>>]

Config(jobs) ==
    [sections     |-> <<[id |-> "s1", jobs |-> jobs]>>,
     fatal_steps  |-> <<>>,
     not_a_rename |-> <<>>]

ConfigChoices ==
    { Config(<<JobCfg(NameA)>>),
      Config(<<JobCfg(NameA), JobCfg(NameA2)>>),
      Config(<<JobCfg(NameA), JobCfg(NameB)>>),
      [Config(<<JobCfg(NameA)>>) EXCEPT !.fatal_steps = <<"(", "^Run tests">>] }

\* A weather day of a previous snapshot
CachedDay(daysAgo, status, details, step) ==
    [date |-> Midnight(Today0 - daysAgo), status |-> status,
     runId |-> IF IsNull(details) THEN "null" ELSE "w0",
     jobId |-> IF IsNull(details) THEN "null" ELSE "j91",
     failureStep |-> step, failureDetails |-> details]

\* failure details as a previous run stored them
OldDetails ==
    Some([failures  |-> <<[number |-> 4, name |-> "t4", comment |-> "", file |-> "b.bats"]>>,
          stats     |-> [total |-> 1, passed |-> 0, failed |-> 1, skipped |-> 0],
          batsFiles |-> <<"b.bats">>])

\* the history of job A in the snapshot written the day before the first run:
\* ten days ending that day, failures on the last two of them
OldHistoryA ==
    [i \in 1..WeatherDays |->
        CASE i = WeatherDays     -> CachedDay(1, "failed", OldDetails, <<"b.bats">>)
          [] i = WeatherDays - 1 -> CachedDay(2, "failed", Null, <<"Run tests">>)
          [] i = WeatherDays - 2 -> CachedDay(3, "passed", Null, <<>>)
          [] OTHER               -> CachedDay(WeatherDays + 1 - i, "none", Null, <<>>)]

OldHistoryB ==
    [i \in 1..WeatherDays |->
        IF i = WeatherDays - 1 THEN CachedDay(2, "passed", Null, <<>>)
        ELSE CachedDay(WeatherDays + 1 - i, "none", Null, <<>>)]

OldTest(name, wh) ==
    [id |-> TestId(name), name |-> name, jobName |-> name, status |-> "failed",
     weatherHistory |-> wh, failureCount |-> CountFailed(wh), aliasedFrom |-> <<>>]

Occ(daysAgo, jobName, jobId) ==
    [date |-> Midnight(Today0 - daysAgo), jobName |-> jobName, jobId |-> jobId,
     runId |-> "w0"]

\* the index of the previous snapshot: t4 failed the day before; t0 last
\* failed more than RetentionDays ago and has been carried since; t1 failed
\* then too and again 12 days ago, when the older failure was not yet pruned
OldIndex ==
    [t \in {"t0", "t1", "t4"} |->
        EnrichEntry([NewIndexEntry EXCEPT
            !.occurrences = CASE t = "t0" -> <<Occ(RetentionDays + 5, NameA, "j90")>>
                              [] t = "t1" -> <<Occ(12, NameA, "j92"),
                                               Occ(RetentionDays + 5, NameA, "j90")>>
                              [] t = "t4" -> <<Occ(1, NameA, "j91")>>,
            !.totalCount = IF t = "t1" THEN 2 ELSE 1])]

Snapshot(secTests, allTests, idx, renames) ==
    [lastRefresh      |-> Now0 - TicksPerDay,
     sections         |-> <<[id |-> "s1", tests |-> secTests]>>,
     allJobsSection   |-> allTests,
     failedTestsIndex |-> idx,
     detectedRenames  |-> renames]

\* data.json before the first run: absent, or a snapshot of an earlier run
CacheChoices ==
    { Null,
      Some(Snapshot(<<OldTest(NameA, OldHistoryA)>>, <<OldTest(NameA, OldHistoryA)>>,
                    OldIndex, <<>>)),
      Some(Snapshot(<<OldTest(NameA, OldHistoryA)>>,
                    <<OldTest(NameA, OldHistoryA), OldTest(NameB, OldHistoryB)>>,
                    <<>>, <<>>)) }

-----------------------------------------------------------------------------
(* The nightly pipeline, one action per phase of scripts/process-data.js    *)

IdleFn    == arg = <<>> /\ res = <<>>
IdleFlaky == prJobResults = <<>> /\ flakyPRJobs = {} /\ failedTestsMap = <<>> /\ flakyJson = Null

InitNightly ==
    /\ pc = "load"
    /\ unreadable \in SUBSET {"config.yaml", "raw-runs.json"}
    /\ now = Now0
    /\ config \in ConfigChoices
    /\ allJobs \in RawChoices
    /\ jobLogs = [j \in {allJobs[i].id : i \in 1..Len(allJobs)} \cap DOMAIN LogPool |-> LogPool[j]]
    /\ dataJson \in CacheChoices
    /\ cachedData = Null
    /\ failedTestsIndex = <<>>
    /\ sections = <<>>
    /\ allJobsSection = <<>>
    /\ detectedRenames = <<>>
    /\ runs = 0
    /\ IdleFn
    /\ IdleFlaky

\* config.yaml or raw-runs.json cannot be read or parsed: process.exit(1). The
\* cache is read between the two
LoadError ==
    /\ pc = "load"
    /\ unreadable # {}
    /\ cachedData' = IF "config.yaml" \in unreadable THEN cachedData ELSE dataJson
    /\ pc' = "aborted"
    /\ UNCHANGED <<unreadable, now, config, allJobs, jobLogs, failedTestsIndex, sections,
                   allJobsSection, detectedRenames, dataJson, runs, fnVars, flakyVars>>

\* cachedData = JSON.parse(data.json) when the file exists;
\* failedTestsIndex = cachedData?.failedTestsIndex || {}
LoadCache ==
    /\ pc = "load"
    /\ unreadable = {}
    /\ \A i \in 1..Len(config.fatal_steps) : ~IsMalformed(config.fatal_steps[i])
    /\ cachedData' = dataJson
    /\ failedTestsIndex' = IF IsNull(dataJson) THEN <<>> ELSE Val(dataJson).failedTestsIndex
    /\ sections' = <<>>
    /\ allJobsSection' = <<>>
    /\ detectedRenames' = <<>>
    /\ pc' = "sections"
    /\ UNCHANGED <<unreadable, now, config, allJobs, jobLogs, dataJson, runs, fnVars, flakyVars>>

\* const fatalStepPatterns = (config.fatal_steps || []).map(s => new RegExp(s))
\* with a source that is no regular expression: the SyntaxError is caught
\* nowhere and ends the process before anything is built or written
PatternError ==
    /\ pc = "load"
    /\ unreadable = {}
    /\ \E i \in 1..Len(config.fatal_steps) : IsMalformed(config.fatal_steps[i])
    /\ cachedData' = dataJson
    /\ pc' = "aborted"
    /\ UNCHANGED <<unreadable, now, config, allJobs, jobLogs, failedTestsIndex, sections,
                   allJobsSection, detectedRenames, dataJson, runs, fnVars, flakyVars>>

\* const sections = (config.sections || []).map(...)
ProcessSections ==
    /\ pc = "sections"
    /\ \E r \in {BuildSections([secs |-> <<>>, idx |-> failedTestsIndex,
                                  cache |-> cachedData], config.sections)} :
          /\ sections' = r.secs
          /\ failedTestsIndex' = r.idx
          /\ cachedData' = r.cache
    /\ pc' = "enrich"
    /\ UNCHANGED <<unreadable, now, config, allJobs, jobLogs, allJobsSection, detectedRenames,
                   dataJson, runs, fnVars, flakyVars>>

\* enrichFailedTestsIndex()
Enrich ==
    /\ pc = "enrich"
    /\ failedTestsIndex' = enrichFailedTestsIndex(failedTestsIndex)
    /\ pc' = "alljobs"
    /\ UNCHANGED <<unreadable, now, config, allJobs, jobLogs, cachedData, sections, allJobsSection,
                   detectedRenames, dataJson, runs, fnVars, flakyVars>>

\* const allJobsSection = { ..., tests: allJobNames.map(...) }
ProcessAllJobs ==
    /\ pc = "alljobs"
    /\ allJobsSection' = BuildAllJobs(sections)
    /\ pc' = "renames"
    /\ UNCHANGED <<unreadable, now, config, allJobs, jobLogs, cachedData, failedTestsIndex, sections,
                   detectedRenames, dataJson, runs, fnVars, flakyVars>>

\* const detectedRenames = detectRenames(allJobsSection, cachedData), then the
\* auto-aliasing of every detected rename
DetectAndAlias ==
    /\ pc = "renames"
    /\ \E renames \in {detectRenames(allJobsSection, cachedData)} :
       \E r \in {ApplyRenames([all |-> allJobsSection, secs |-> sections], renames)} :
          /\ detectedRenames' = renames
          /\ allJobsSection' = r.all
          /\ sections' = r.secs
    /\ pc' = "write"
    /\ UNCHANGED <<unreadable, now, config, allJobs, jobLogs, cachedData, failedTestsIndex,
                   dataJson, runs, fnVars, flakyVars>>

\* outputData, as far as the model follows it
OutputData ==
    [lastRefresh      |-> now,
     sections         |-> sections,
     allJobsSection   |-> allJobsSection,
     failedTestsIndex |-> failedTestsIndex,
     detectedRenames  |-> detectedRenames]

\* fs.writeFileSync('data.json', JSON.stringify(outputData))
WriteData ==
    /\ pc = "write"
    /\ dataJson' = Some(OutputData)
    /\ runs' = runs + 1
    /\ pc' = "exit"
    /\ UNCHANGED <<unreadable, now, config, allJobs, jobLogs, cachedData, failedTestsIndex, sections,
                   allJobsSection, detectedRenames, fnVars, flakyVars>>

\* the workflow starts the script again, at once or a day later
NextRun ==
    /\ pc = "exit"
    /\ runs < MaxRuns
    /\ \E d \in {0, TicksPerDay} : now' = now + d
    /\ pc' = "load"
    /\ UNCHANGED <<unreadable, config, allJobs, jobLogs, cachedData, failedTestsIndex, sections,
                   allJobsSection, detectedRenames, dataJson, runs, fnVars, flakyVars>>

Next ==
    \/ LoadError
    \/ LoadCache
    \/ PatternError
    \/ ProcessSections
    \/ Enrich
    \/ ProcessAllJobs
    \/ DetectAndAlias
    \/ WriteData
    \/ NextRun

Spec == InitNightly /\ [][Next]_vars

-----------------------------------------------------------------------------
(* Properties of the nightly pipeline                                       *)

\* the tests of the sections followed by the tests of the "All Jobs" section
TestsOf(secs, all) == Flatten([i \in 1..Len(secs) |-> secs[i].tests]) \o all

BuiltTests == TestsOf(sections, allJobsSection)

WrittenTests == TestsOf(Val(dataJson).sections, Val(dataJson).allJobsSection)

\* the date and the status of every day of every test, by job
HistoriesOf(tests) ==
    [i \in 1..Len(tests) |->
        [jobName |-> tests[i].jobName,
         days    |-> [n \in 1..Len(tests[i].weatherHistory) |->
                        [date   |-> tests[i].weatherHistory[n].date,
                         status |-> tests[i].weatherHistory[n].status]]]]

\* a run that failed in a step that matches no fatal pattern
IsSetupFailure(j) ==
    /\ j.conclusion = "failure"
    /\ \E i \in 1..Len(Val(j.steps)) :
          /\ Val(j.steps)[i].conclusion = "failure"
          /\ \A k \in 1..(i - 1) : Val(j.steps)[k].conclusion # "failure"
          /\ \A p \in Range(fatalStepPatterns) : ~RegExpTest(p, Val(j.steps)[i].name)

\* C1: every weather history has exactly ten entries: in the sections and in
\* the "All Jobs" section while they are built and after the rename merge, and
\* in every data.json a run has written.
C1_TenDays ==
    /\ \A t \in Range(BuiltTests) : Len(t.weatherHistory) = 10
    /\ runs >= 1 => \A t \in Range(WrittenTests) : Len(t.weatherHistory) = 10

\* a run has written a history into which an old job's days were merged, from
\* raw data with two runs of the job on one day and a previous snapshot
C1_Witness ==
    /\ pc = "exit"
    /\ ~IsNull(cachedData)
    /\ \E t \in Range(WrittenTests) :
          /\ t.aliasedFrom # <<>>
          /\ \E i \in 1..Len(t.weatherHistory) : t.weatherHistory[i].jobId = "j91"
    /\ \E i, k \in 1..Len(allJobs) :
          /\ i # k
          /\ allJobs[i].name = allJobs[k].name
          /\ toDateString(allJobs[i].started_at) = toDateString(allJobs[k].started_at)

\* C3: after a run, no test of the failure index, re-indexed by the run or
\* not, has an occurrence dated more than 30 days before the run's clock.
C3_NoStaleOccurrence ==
    pc = "exit" =>
        \A t \in DOMAIN Val(dataJson).failedTestsIndex :
            \A o \in Range(Val(dataJson).failedTestsIndex[t].occurrences) :
                o.date >= now - 30 * TicksPerDay

\* C7: no weather day and no current status, in the sections or in the
\* "All Jobs" section, shows 'failed' for a run that failed in a non-fatal step.
C7_SetupFailureNeverFailed ==
    \A t \in Range(BuiltTests) :
        /\ \A d \in Range(t.weatherHistory) : \A j \in Range(allJobs) :
              (d.jobId = j.id /\ IsSetupFailure(j)) => d.status # "failed"
        /\ t.status = "failed" =>
              \E j \in Range(allJobs) :
                  j.name = t.jobName /\ j.conclusion = "failure" /\ ~IsSetupFailure(j)

\* C10: a second run on the same raw input at the same clock, with the first
\* run's data.json as its cache, ends with the weather histories of the first:
\* the same days with the same statuses for every job.
C10_SecondRunIdentical ==
    (pc = "write" /\ runs >= 1 /\ Val(dataJson).lastRefresh = now) =>
        HistoriesOf(BuiltTests) = HistoriesOf(WrittenTests)

\* the status the day loop of a section job gives a day from the raw runs alone
LiveDayStatus(jobName, date) ==
    DayStatus(DayJob(MatchingJobs(jobName), date),
              determineStatus(DayJob(MatchingJobs(jobName), date)), FALSE, Null, 0)

\* the place of a day in the cached history the section builder reads for a
\* test; 0 when the cache has no such day
CachedDayOf(test, date) ==
    CachedDayIndex(getCachedWeatherHistory(cachedData,
                       CachedWeatherPath(cachedData, "s1", test.id)), date)

\* C11: in the sections, a day on which the job has at least one raw run gets
\* its status from the raw runs and never from the cached day; a day with
\* no raw run and no cached day has status 'none'.
C11_LiveDataWins ==
    pc = "enrich" =>
        \A s \in Range(sections) : \A t \in Range(s.tests) : \A d \in Range(t.weatherHistory) :
            /\ DayJobs(MatchingJobs(t.jobName), d.date) # <<>>
                  => d.status = LiveDayStatus(t.jobName, d.date)
            /\ (DayJobs(MatchingJobs(t.jobName), d.date) = <<>> /\ CachedDayOf(t, d.date) = 0)
                  => d.status = "none"

\* the ten entries are the ten days that end on the anchor day, oldest first
WindowEndsOn(wh, anchorDay) ==
    /\ Len(wh) = 10
    /\ \A i \in 0..9 : wh[i + 1].date = Midnight(anchorDay - (9 - i))

\* some run of the job dated today has conclusion success or failure
CompletedToday(jobName) ==
    \E j \in Range(allJobs) :
        /\ j.name = jobName
        /\ toDateString(j.started_at) = toDateString(now)
        /\ j.conclusion \in {"success", "failure"}

\* the tests of a run once they are built
RunHasBuilt == pc \in {"enrich", "alljobs", "renames", "write", "exit"}

\* C12: for every job, in the sections and in the "All Jobs" section, the
\* newest slot is today when a run of the job dated today has conclusion
\* success or failure and yesterday otherwise, and slot i is the anchor minus
\* (9 - i) days.
C12_AnchoredWindow ==
    RunHasBuilt =>
        \A t \in Range(BuiltTests) :
            WindowEndsOn(t.weatherHistory,
                         IF CompletedToday(t.jobName) THEN toDateString(now)
                         ELSE toDateString(now) - 1)

\* C22: once the previous snapshot is loaded, the run leaves it as it was
\* read, its weather days and its failure index (the object the run indexes
\* into when there is a snapshot); data.json changes only in the write that
\* ends a run.
C22_SnapshotNotMutated ==
    [][/\ pc # "load" => cachedData' = cachedData
       /\ (pc # "load" /\ ~IsNull(cachedData)) => failedTestsIndex' = failedTestsIndex
       /\ dataJson' # dataJson => (pc = "write" /\ pc' = "exit")]_vars

\* C23: in the snapshot a run writes, the occurrences of every test of the
\* failure index are sorted newest first and totalCount is their number.
C23_IndexSortedAndCounted ==
    pc \in {"write", "exit"} =>
        \A name \in DOMAIN failedTestsIndex :
            /\ failedTestsIndex[name].totalCount = Len(failedTestsIndex[name].occurrences)
            /\ \A i, k \in 1..Len(failedTestsIndex[name].occurrences) :
                  i < k => failedTestsIndex[name].occurrences[i].date
                              >= failedTestsIndex[name].occurrences[k].date

\* A run writes a test that failed on two days, in the order newest first,
\* after one whose old occurrence the run has pruned
C23_Witness ==
    /\ pc = "write"
    /\ ~IsNull(cachedData)
    /\ \E name \in DOMAIN failedTestsIndex :
          \E i, k \in 1..Len(failedTestsIndex[name].occurrences) :
              failedTestsIndex[name].occurrences[i].date
                  > failedTestsIndex[name].occurrences[k].date
    /\ \E name \in DOMAIN failedTestsIndex \cap DOMAIN Val(dataJson).failedTestsIndex :
          \E o \in Range(Val(dataJson).failedTestsIndex[name].occurrences) :
              /\ o.date < CutoffDate
              /\ o \notin Range(failedTestsIndex[name].occurrences)

\* the sum of the counts of a list of affected jobs
RECURSIVE SumCounts(_)
SumCounts(affected) ==
    IF affected = <<>> THEN 0 ELSE Head(affected).count + SumCounts(Tail(affected))

\* the occurrences of an index entry for one job name
OccurrencesOf(entry, jobName) ==
    {i \in 1..Len(entry.occurrences) : entry.occurrences[i].jobName = jobName}

\* C24: after enrichFailedTestsIndex every test of the index has one entry of
\* affectedJobs per job name of its occurrences, with the number of the
\* occurrences of that job as count and the most recent of their dates as
\* latestDate; the entries are sorted by count descending, their counts add
\* up to the number of occurrences, uniqueJobsAffected is the number of
\* entries, and a second enrichFailedTestsIndex changes nothing.
C24_AffectedJobs ==
    pc = "alljobs" =>
        /\ \A name \in DOMAIN failedTestsIndex :
              \E e \in {failedTestsIndex[name]} :
                 /\ {a.jobName : a \in Range(e.affectedJobs)}
                       = {o.jobName : o \in Range(e.occurrences)}
                 /\ \A i, k \in 1..Len(e.affectedJobs) :
                       /\ i # k => e.affectedJobs[i].jobName # e.affectedJobs[k].jobName
                       /\ i < k => e.affectedJobs[i].count >= e.affectedJobs[k].count
                 /\ \A a \in Range(e.affectedJobs) :
                       /\ a.count = Cardinality(OccurrencesOf(e, a.jobName))
                       /\ \E i \in OccurrencesOf(e, a.jobName) :
                             a.latestDate = e.occurrences[i].date
                       /\ \A i \in OccurrencesOf(e, a.jobName) :
                             a.latestDate >= e.occurrences[i].date
                 /\ SumCounts(e.affectedJobs) = Len(e.occurrences)
                 /\ e.uniqueJobsAffected = Len(e.affectedJobs)
        /\ enrichFailedTestsIndex(failedTestsIndex) = failedTestsIndex

\* A test of the enriched index failed in two jobs, in one of them on two days
C24_Witness ==
    /\ pc = "alljobs"
    /\ \E name \in DOMAIN failedTestsIndex :
          /\ Len(failedTestsIndex[name].affectedJobs) = 2
          /\ \E a \in Range(failedTestsIndex[name].affectedJobs) :
                \E i, k \in OccurrencesOf(failedTestsIndex[name], a.jobName) :
                    failedTestsIndex[name].occurrences[i].date
                        # failedTestsIndex[name].occurrences[k].date

\* the failures and the counters of failure details, Null when there are none
DetailsOf(failureDetails) ==
    IF IsNull(failureDetails) THEN Null
    ELSE Some([failures |-> Val(failureDetails).failures,
               stats    |-> Val(failureDetails).stats])

\* the failure details the cache holds for a test on the date of a day
CachedDetailsOf(test, date) ==
    IF CachedDayOf(test, date) = 0 THEN Null
    ELSE Val(getCachedWeatherHistory(cachedData, CachedWeatherPath(cachedData, "s1", test.id)))
             [CachedDayOf(test, date)].failureDetails

\* C25: in the sections, the day of a run classified failed has status
\* 'failed' and holds the fresh parse of the log of that run when it is not
\* null, whatever the cache holds; the failure details of the cached day of
\* that date when the fresh parse is null; and null when there are neither.
C25_FreshParseWins ==
    pc = "enrich" =>
        \A s \in Range(sections) : \A t \in Range(s.tests) : \A d \in Range(t.weatherHistory) :
            \A dj \in {DayJob(MatchingJobs(t.jobName), d.date)} :
                (~IsNull(dj) /\ determineStatus(dj) = "failed") =>
                    /\ d.status = "failed"
                    /\ DetailsOf(d.failureDetails) =
                          IF ~IsNull(parseTestFailures(Val(dj).id))
                          THEN DetailsOf(parseTestFailures(Val(dj).id))
                          ELSE DetailsOf(CachedDetailsOf(t, d.date))

\* A failed day holds the fresh parse of its log although the cache has
\* other failure details for that date
C25_Witness ==
    /\ pc = "enrich"
    /\ \E s \in Range(sections) : \E t \in Range(s.tests) : \E d \in Range(t.weatherHistory) :
          /\ d.jobId = "j12"
          /\ ~IsNull(parseTestFailures("j12"))
          /\ ~IsNull(CachedDetailsOf(t, d.date))
          /\ DetailsOf(CachedDetailsOf(t, d.date)) # DetailsOf(d.failureDetails)

\* C26: in the "All Jobs" section, for a job that is in no section, a failed
\* day whose run has a log on disk with a 'not ok' line that is not skipped
\* has failure details that hold the failures of that log.
C26_AllJobsFailureDetails ==
    pc = "renames" =>
        \A t \in Range(allJobsSection) :
            IsNull(ConfiguredTest(sections, t.jobName)) =>
                \A d \in Range(t.weatherHistory) :
                    (/\ d.status = "failed"
                     /\ d.jobId \in DOMAIN jobLogs
                     /\ ~IsNull(parseTestFailures(d.jobId))
                     /\ Val(parseTestFailures(d.jobId)).failures # <<>>) =>
                        /\ ~IsNull(d.failureDetails)
                        /\ Val(d.failureDetails).failures
                              = Val(parseTestFailures(d.jobId)).failures

\* the runs of a job on the day of a date that have a step matching a
\* fatal-step pattern
FatalStepRuns(jobName, date) ==
    {j \in Range(allJobs) :
        /\ j.name = jobName
        /\ toDateString(j.started_at) = toDateString(date)
        /\ ~IsNull(j.steps)
        /\ \E s \in Range(Val(j.steps)) : \E p \in Range(fatalStepPatterns) :
                RegExpTest(p, s.name)}

\* C27: in the sections, a day on which runs of the job have a step matching
\* a fatal-step pattern is the day of the most recently started of these
\* runs: it carries the id of that run and the status of that run.
C27_LatestFatalStepRun ==
    pc = "enrich" =>
        \A s \in Range(sections) : \A t \in Range(s.tests) : \A d \in Range(t.weatherHistory) :
            FatalStepRuns(t.jobName, d.date) # {} =>
                \E j \in FatalStepRuns(t.jobName, d.date) :
                    /\ \A o \in FatalStepRuns(t.jobName, d.date) : o.started_at <= j.started_at
                    /\ d.jobId = j.id
                    /\ d.status = DayStatus(Some(j), determineStatus(Some(j)), FALSE, Null, 0)

\* A job was run twice on a day, both runs reached the tests, and the day is
\* the day of the second run
C27_Witness ==
    /\ pc = "enrich"
    /\ {"j1", "j2"} \subseteq {j.id : j \in Range(allJobs)}
    /\ \E s \in Range(sections) : \E t \in Range(s.tests) : \E d \in Range(t.weatherHistory) :
          d.jobId = "j2" /\ d.status = "failed"

\* the nightly pipeline, when config.yaml or raw-runs.json is missing or cannot
\* be parsed, aborts with a failure and leaves data.json as it was
NightlyLoadAborts ==
    [][(pc = "load" /\ unreadable # {}) => (pc' = "aborted" /\ dataJson' = dataJson)]_vars

\* C20: a fatal-step pattern of the configuration that is no regular
\* expression is skipped: the run does not abort.
C20_MalformedPatternSkipped ==
    (\E p \in Range(config.fatal_steps) : IsMalformed(p)) => pc # "aborted"

-----------------------------------------------------------------------------
(* The parser on its own: parseTestFailures applied to one log              *)

\* lines of the log that is parsed
MaxLines == 3

Timestamp == "2025-11-27T00:53:00.5185123Z"

\* the lines a log is made of
ParseLineChoices ==
    { <<"not ok", "1", "foo", "#", "SKIP">>,
      <<"not ok", "2", "bar">>,
      <<"ok", "3", "baz">>,
      <<Timestamp, "not ok", "2", "-", "bar", "in 5ms">>,
      <<Timestamp, "ok", "3", "baz", "in 5ms">>,
      <<Timestamp, "not ok", "3", "baz", "in 5ms", "#", "skip:", "flaky">>,
      <<"not ok", "2", "bar", "#", "known", "issue">>,
      <<"not ok", "1", "#", "TODO", "later">>,
      <<"ok", "1", "foo", "#", "SKIP">>,
      <<"ok", "1">>,
      <<"Took", "3", "seconds">>,
      <<"Running", "a.bats">>,
      <<>> }

\* the logs of at most MaxLines lines, the empty file included
ParseLogChoices == UNION {[1..n -> ParseLineChoices] : n \in 0..MaxLines}

\* job-logs/j0.log is missing, or holds one of the logs
InitParse ==
    /\ pc = "call"
    /\ unreadable = {}
    /\ jobLogs \in {<<>>} \cup {[j \in {"j0"} |-> log] : log \in ParseLogChoices}
    /\ arg = Some("j0")
    /\ res = <<>>
    /\ now = Now0
    /\ config = Config(<<>>)
    /\ allJobs = <<>>
    /\ cachedData = Null
    /\ failedTestsIndex = <<>>
    /\ sections = <<>>
    /\ allJobsSection = <<>>
    /\ detectedRenames = <<>>
    /\ dataJson = Null
    /\ runs = 0
    /\ IdleFlaky

\* parseTestFailures(jobId) of the nightly pipeline and of the PR pipeline
Parse ==
    /\ pc = "call"
    /\ res' = Some([nightly |-> parseTestFailures(Val(arg)),
                    pr      |-> parsePRTestFailures(Val(arg))])
    /\ pc' = "return"
    /\ UNCHANGED <<unreadable, nightlyVars, arg, flakyVars>>

NextParse == Parse

SpecParse == InitParse /\ [][NextParse]_vars

\* the log that was parsed; <<>> when the file is missing or empty
ParsedLog == IF "j0" \in DOMAIN jobLogs THEN jobLogs["j0"] ELSE <<>>

\* the line holds  not ok <n> <text>
HoldsNotOk(raw) ==
    \E i \in 1..Len(raw) :
        raw[i] \in {"not ok", "NOT OK"} /\ i + 2 <= Len(raw) /\ raw[i + 1] \in {"1", "2", "3"}

\* the line holds  ok <n> <text>  and is no 'not ok' line
HoldsOk(raw) ==
    /\ ~HoldsNotOk(raw)
    /\ \E i \in 1..Len(raw) :
          raw[i] \in {"ok", "Took"} /\ i + 2 <= Len(raw) /\ raw[i + 1] \in {"1", "2", "3"}

\* the text after the first '#' of the line contains skip or todo, in any case
MarkedSkipOrTodo(raw) ==
    \E i \in 1..Len(raw) :
        /\ raw[i] = "#"
        /\ \E k \in (i + 1)..Len(raw) : raw[k] \in {"SKIP", "skip:", "TODO"}

\* how many lines of the parsed log are in a set of lines
CountLines(S) == Cardinality({i \in 1..Len(ParsedLog) : ParsedLog[i] \in S})

NotOkLines   == {raw \in ParseLineChoices : HoldsNotOk(raw) /\ ~MarkedSkipOrTodo(raw)}
SkippedLines == {raw \in ParseLineChoices : HoldsNotOk(raw) /\ MarkedSkipOrTodo(raw)}
OkLines      == {raw \in ParseLineChoices : HoldsOk(raw)}

\* the results of the two copies of the parser
ParseResults == {Val(res).nightly, Val(res).pr}

ExampleLog ==
    << <<"not ok", "1", "foo", "#", "SKIP">>, <<"not ok", "2", "bar">>, <<"ok", "3", "baz">> >>

\* C14: a 'not ok' line whose comment contains skip or todo is counted in
\* skipped and in total, not in failed, and is no entry of failures; the
\* example log gives one failure (2, 'bar') and total 3, passed 1, failed 1,
\* skipped 1.
C14_SkipIsNotFailure ==
    (pc = "return" /\ ParsedLog # <<>>) =>
        \A r \in ParseResults :
            /\ CountLines(SkippedLines) > 0 =>
                  /\ ~IsNull(r)
                  /\ Val(r).stats.skipped = CountLines(SkippedLines)
                  /\ Val(r).stats.failed = CountLines(NotOkLines)
                  /\ Val(r).stats.total = CountLines(SkippedLines) + CountLines(NotOkLines)
                                            + CountLines(OkLines)
                  /\ Len(Val(r).failures) = CountLines(NotOkLines)
            /\ ParsedLog = ExampleLog =>
                  /\ Len(Val(r).failures) = 1
                  /\ Val(r).failures[1].number = 2
                  /\ Val(r).failures[1].name = "bar"
                  /\ Val(r).stats = [total |-> 3, passed |-> 1, failed |-> 1, skipped |-> 1]

\* C15: the result is null exactly when the log is missing or empty or holds
\* no 'ok' and no 'not ok' line; a log whose only such lines are skipped
\* 'not ok' lines gives a result.
C15_NullIffNoTestLine ==
    pc = "return" =>
        \A r \in ParseResults :
            IsNull(r) <=> \A i \in 1..Len(ParsedLog) :
                              ~HoldsNotOk(ParsedLog[i]) /\ ~HoldsOk(ParsedLog[i])

\* a log whose only test line is a skipped 'not ok' line has been parsed
C15_Witness ==
    /\ pc = "return"
    /\ Len(ParsedLog) = 2
    /\ CountLines(SkippedLines) = 1
    /\ CountLines(NotOkLines) + CountLines(OkLines) = 0
    /\ \A r \in ParseResults : ~IsNull(r) /\ Val(r).failures = <<>>

\* C30: for every log, a result that is not null has stats.total = passed +
\* failed + skipped and stats.failed = the number of its failures, no counter
\* is negative, and the parser of the nightly pipeline and the parser of the
\* PR pipeline return the same failures and the same stats, or both null.
C30_StatsConsistent ==
    pc = "return" =>
        /\ \A r \in ParseResults :
              ~IsNull(r) =>
                  /\ Val(r).stats.total
                        = Val(r).stats.passed + Val(r).stats.failed + Val(r).stats.skipped
                  /\ Val(r).stats.failed = Len(Val(r).failures)
                  /\ Val(r).stats.total >= 0
                  /\ Val(r).stats.passed >= 0
                  /\ Val(r).stats.failed >= 0
                  /\ Val(r).stats.skipped >= 0
        /\ IsNull(Val(res).nightly) <=> IsNull(Val(res).pr)
        /\ ~IsNull(Val(res).nightly) =>
              /\ Val(Val(res).nightly).failures = Val(Val(res).pr).failures
              /\ Val(Val(res).nightly).stats = Val(Val(res).pr).stats

\* a log with a passed, a failed and a skipped test was parsed
C30_Witness ==
    /\ pc = "return"
    /\ \A r \in ParseResults :
          /\ ~IsNull(r)
          /\ Val(r).stats.passed = 1
          /\ Val(r).stats.failed = 1
          /\ Val(r).stats.skipped = 1

-----------------------------------------------------------------------------
(* The classifier on its own: determineStatus applied to one job            *)

\* steps of the job that is classified
MaxSteps == 2

IdleNightly ==
    /\ now = Now0
    /\ allJobs = <<>>
    /\ jobLogs = <<>>
    /\ cachedData = Null
    /\ failedTestsIndex = <<>>
    /\ sections = <<>>
    /\ allJobsSection = <<>>
    /\ detectedRenames = <<>>
    /\ dataJson = Null
    /\ runs = 0

FatalStepChoices == { <<>>, <<"^Run tests">>, <<"image">>, <<"image", "^Run tests">> }

StepChoices == {Step(n, c) : n \in StepNames, c \in {"success", "failure"}}

StepsChoices ==
    {Null} \cup {Some(st) : st \in UNION {[1..n -> StepChoices] : n \in 0..MaxSteps}}

JobChoices ==
    {Null} \cup
    {Some([status |-> s, conclusion |-> c, steps |-> st]) :
        s \in {"completed", "in_progress", "queued"},
        c \in {"success", "failure", "cancelled", "skipped", "null"},
        st \in StepsChoices}

InitClassify ==
    /\ pc = "call"
    /\ unreadable = {}
    /\ config \in {[Config(<<>>) EXCEPT !.fatal_steps = f] : f \in FatalStepChoices}
    /\ arg \in JobChoices
    /\ res = <<>>
    /\ IdleNightly
    /\ IdleFlaky

\* const rawStatus = determineStatus(latestJob);
\* const status = rawStatus === 'not_run_setup_failed' ? 'not_run' : rawStatus
Classify ==
    /\ pc = "call"
    /\ res' = Some([rawStatus |-> determineStatus(arg),
                    status    |-> DisplayStatus(determineStatus(arg))])
    /\ pc' = "return"
    /\ UNCHANGED <<unreadable, nightlyVars, arg, flakyVars>>

NextClassify == Classify

SpecClassify == InitClassify /\ [][NextClassify]_vars

\* the job under classification failed and its first failed step matches no
\* fatal pattern
ArgFailedInSetup ==
    /\ ~IsNull(arg)
    /\ Val(arg).conclusion = "failure"
    /\ ~IsNull(Val(arg).steps)
    /\ \E i \in 1..Len(Val(Val(arg).steps)) :
          LET st == Val(Val(arg).steps) IN
          /\ st[i].conclusion = "failure"
          /\ \A k \in 1..(i - 1) : st[k].conclusion # "failure"
          /\ \A p \in Range(fatalStepPatterns) : ~RegExpTest(p, st[i].name)

ArgRunning == ~IsNull(arg) /\ Val(arg).status \in {"in_progress", "queued"}

\* C5, as written: a job with conclusion 'failure' whose first failed step
\* matches no fatal pattern is classified not_run_setup_failed and shown as
\* not_run, never as failed.
C5_Original ==
    (pc = "return" /\ ArgFailedInSetup) =>
        /\ Val(res).rawStatus = "not_run_setup_failed"
        /\ Val(res).status = "not_run"

\* C5, amended: a job with conclusion 'failure' whose first failed step matches
\* no fatal pattern is shown as not_run, never as failed, and is classified
\* not_run_setup_failed unless its status is in_progress or queued, when it is
\* classified not_run.
C5_SetupFailureNotRun ==
    (pc = "return" /\ ArgFailedInSetup) =>
        /\ Val(res).status = "not_run"
        /\ Val(res).rawStatus = IF ArgRunning THEN "not_run" ELSE "not_run_setup_failed"

\* a completed job that failed in a non-fatal step, before a fatal one that
\* also failed, has been classified
C5_Witness ==
    /\ pc = "return"
    /\ ArgFailedInSetup
    /\ ~ArgRunning
    /\ \E i \in 1..Len(Val(Val(arg).steps)) :
          /\ Val(Val(arg).steps)[i].conclusion = "failure"
          /\ IsFatalStepName(Val(Val(arg).steps)[i].name)
    /\ Val(res).rawStatus = "not_run_setup_failed"

\* C6: the classifier is total and applies its rules in order: status
\* in_progress or queued gives not_run whatever the conclusion; then success
\* gives passed; then failure gives failed when the first failed step matches
\* a fatal pattern or there is no failed step to look at, and
\* not_run_setup_failed otherwise; anything else gives not_run.
C6_RulesInOrder ==
    pc = "return" =>
        /\ Val(res).rawStatus \in {"passed", "failed", "not_run", "not_run_setup_failed"}
        /\ ~IsNull(arg) =>
              Val(res).rawStatus =
                 CASE ArgRunning -> "not_run"
                   [] ~ArgRunning /\ Val(arg).conclusion = "success" -> "passed"
                   [] ~ArgRunning /\ Val(arg).conclusion = "failure" ->
                         IF ArgFailedInSetup THEN "not_run_setup_failed" ELSE "failed"
                   [] OTHER -> "not_run"

\* a job that is still in progress, with a conclusion of failure, has been
\* classified not_run
C6_Witness ==
    /\ pc = "return"
    /\ ArgRunning
    /\ Val(arg).conclusion = "failure"
    /\ Val(res).rawStatus = "not_run"

-----------------------------------------------------------------------------
(* The merge on its own: mergeWeatherHistory applied to two histories       *)

\* days of each history handed to the merge
MergeLen == 3

DayStatuses == {"none", "passed", "failed"}

\* a day of a history under merge; the job id tells the two histories apart
MergeDay(day, tick, status, jobId) ==
    [date |-> Midnight(day) + tick, status |-> status, runId |-> "null", jobId |-> jobId,
     failureStep |-> <<>>, failureDetails |-> Null]

\* histories of MergeLen consecutive days from a first day, one status each
HistoryChoices(firstDay, tick, jobId) ==
    {[i \in 1..MergeLen |-> MergeDay(firstDay + i - 1, tick, f[i], jobId)] :
        f \in [1..MergeLen -> DayStatuses]}

InitMerge ==
    /\ pc = "call"
    /\ unreadable = {}
    /\ \E shift \in {0, 1}, tick \in {0, 1} :
          arg \in {[newHistory |-> n, oldHistory |-> o] :
                      n \in HistoryChoices(Today0, 0, "new"),
                      o \in HistoryChoices(Today0 - shift, tick, "old")}
    /\ res = <<>>
    /\ config = Config(<<>>)
    /\ IdleNightly
    /\ IdleFlaky

\* newJob.weatherHistory = mergeWeatherHistory(newJob.weatherHistory,
\*                                             rename.oldWeatherHistory)
Merge ==
    /\ pc = "call"
    /\ res' = mergeWeatherHistory(arg.newHistory, arg.oldHistory)
    /\ pc' = "return"
    /\ UNCHANGED <<unreadable, nightlyVars, config, arg, flakyVars>>

NextMerge == Merge

SpecMerge == InitMerge /\ [][NextMerge]_vars

\* C2: the merge keeps every day of the new history whose status is not
\* 'none'; a day of the result differs from the new history's only where the
\* new day is 'none' and the old history has a day of the same calendar date
\* that is not 'none', and then it is that old day.
C2_NewDataWins ==
    pc = "return" =>
        /\ Len(res) = Len(arg.newHistory)
        /\ \A i \in 1..Len(arg.newHistory) :
              /\ arg.newHistory[i].status # "none" => res[i] = arg.newHistory[i]
              /\ res[i] # arg.newHistory[i] =>
                    /\ arg.newHistory[i].status = "none"
                    /\ \E k \in 1..Len(arg.oldHistory) :
                          /\ res[i] = arg.oldHistory[k]
                          /\ arg.oldHistory[k].status # "none"
                          /\ arg.oldHistory[k].date \div TicksPerDay
                                = arg.newHistory[i].date \div TicksPerDay

\* a merge has filled an empty day from the old history and has kept a new
\* day for whose date the old history had another status
C2_Witness ==
    /\ pc = "return"
    /\ \E i \in 1..Len(res) : res[i].jobId = "old"
    /\ \E i \in 1..Len(res), k \in 1..Len(arg.oldHistory) :
          /\ res[i].jobId = "new"
          /\ res[i].status # "none"
          /\ arg.oldHistory[k].date \div TicksPerDay = res[i].date \div TicksPerDay
          /\ arg.oldHistory[k].status \notin {"none", res[i].status}

-----------------------------------------------------------------------------
(* The index on its own: indexFailedTest called twice for one job           *)

OccurrenceChoices ==
    {[date |-> Midnight(Today0 - d), jobName |-> n, runId |-> r] :
        d \in {0, 1, WeatherDays - 1}, n \in {NameA, NameB}, r \in {"w1", "w2"}}

\* the index as loaded from no snapshot or from a previous one, and two calls
\* for the same test and job with dates of the weather window
InitIndex ==
    /\ pc = "first"
    /\ unreadable = {}
    /\ arg \in {[testName |-> t, jobId |-> j, first |-> a, second |-> b] :
                   t \in {"t1", "t4", "t5"}, j \in {"j2", "j8"},
                   a \in OccurrenceChoices, b \in OccurrenceChoices}
    /\ res = <<>>
    /\ now = Now0
    /\ failedTestsIndex \in {<<>>, OldIndex}
    /\ config = Config(<<>>)
    /\ allJobs = <<>>
    /\ jobLogs = <<>>
    /\ cachedData = Null
    /\ sections = <<>>
    /\ allJobsSection = <<>>
    /\ detectedRenames = <<>>
    /\ dataJson = Null
    /\ runs = 0
    /\ IdleFlaky

\* indexFailedTest(testName, date, jobName, jobId, runId): the first call;
\* res keeps the index as the call leaves it
IndexFirst ==
    /\ pc = "first"
    /\ failedTestsIndex' = indexFailedTest(failedTestsIndex, arg.testName, arg.first.date,
                                           arg.first.jobName, arg.jobId, arg.first.runId)
    /\ res' = failedTestsIndex'
    /\ pc' = "second"
    /\ UNCHANGED <<unreadable, now, config, allJobs, jobLogs, cachedData, sections, allJobsSection,
                   detectedRenames, dataJson, runs, arg, flakyVars>>

\* the second call, for the same test and job
IndexSecond ==
    /\ pc = "second"
    /\ failedTestsIndex' = indexFailedTest(failedTestsIndex, arg.testName, arg.second.date,
                                           arg.second.jobName, arg.jobId, arg.second.runId)
    /\ pc' = "return"
    /\ UNCHANGED <<unreadable, now, config, allJobs, jobLogs, cachedData, sections, allJobsSection,
                   detectedRenames, dataJson, runs, arg, res, flakyVars>>

NextIndex ==
    \/ IndexFirst
    \/ IndexSecond

SpecIndex == InitIndex /\ [][NextIndex]_vars

\* C4: a second call of indexFailedTest with the same test name and job id,
\* whatever its date, job name and run id, leaves the occurrences and the
\* total count of the test as the first call left them, and no test ever has
\* two occurrences with one job id.
C4_IndexIdempotent ==
    /\ pc = "return" =>
          /\ failedTestsIndex[arg.testName].occurrences = res[arg.testName].occurrences
          /\ failedTestsIndex[arg.testName].totalCount = res[arg.testName].totalCount
    /\ \A t \in DOMAIN failedTestsIndex :
          \A i, k \in 1..Len(failedTestsIndex[t].occurrences) :
              failedTestsIndex[t].occurrences[i].jobId = failedTestsIndex[t].occurrences[k].jobId
                  => i = k

\* the second call came with another date, job name and run id for a test
\* that already had an occurrence of another job
C4_Witness ==
    /\ pc = "return"
    /\ arg.second.date # arg.first.date
    /\ arg.second.jobName # arg.first.jobName
    /\ arg.second.runId # arg.first.runId
    /\ Len(failedTestsIndex[arg.testName].occurrences) = 2
    /\ failedTestsIndex[arg.testName].totalCount = 2

-----------------------------------------------------------------------------
(* 4.6 The PR pipeline, scripts/process-flaky-data.js                       *)
(* A PR job is [id, name, pr_number, run_attempt, conclusion, pr_merged];   *)
(* pr_number 0 stands for a job without one, and for the 'unknown' that     *)
(* the script puts in its place.                                            *)

\* String(prNumber), for job.pr_number || 'unknown'
PrText(n) ==
    IF n = 0 THEN <<"u", "n", "k", "n", "o", "w", "n">>
    ELSE IF n < 10 THEN <<Digits[n + 1]>>
    ELSE <<Digits[(n \div 10) + 1], Digits[(n % 10) + 1]>>

\* `${prNumber}-${jobName}`
PRJobKey(prNumber, jobName) == PrText(prNumber) \o <<"-">> \o jobName

\* First pass: allJobs.forEach(job => ...) filling prJobResults, an object
\* whose entries stay in the order in which their keys were first set
RECURSIVE GroupByPRJob(_, _)
GroupByPRJob(jobs, acc) ==
    IF jobs = <<>> THEN acc
    ELSE LET job  == Head(jobs)
             key  == PRJobKey(job.pr_number, job.name)
             i0   == FindIndex(acc, {e \in Range(acc) : e.key = key})
             acc1 == IF i0 # 0 THEN acc
                     ELSE Append(acc, [key |-> key, prNumber |-> job.pr_number,
                                       jobName |-> job.name, failed |-> <<>>,
                                       passed |-> <<>>, prMerged |-> job.pr_merged])
             i    == IF i0 # 0 THEN i0 ELSE Len(acc1)
             acc2 == IF job.conclusion = "failure"
                     THEN [acc1 EXCEPT ![i].failed = Append(@, job)]
                     ELSE IF job.conclusion = "success"
                     THEN [acc1 EXCEPT ![i].passed = Append(@, job)]
                     ELSE acc1
         IN GroupByPRJob(Tail(jobs), acc2)

\* A detector for which one failed attempt is enough
IdentifyFlaky_AnyFailed(results) ==
    {results[i].key : i \in {k \in 1..Len(results) : Len(results[k].failed) > 0}}

\* flakyPRJobs: the keys with a failed and a passed attempt
IdentifyFlaky(results) ==
    {results[i].key : i \in {k \in 1..Len(results) :
                                Len(results[k].failed) > 0 /\ Len(results[k].passed) > 0}}

B2N(b) == IF b THEN 1 ELSE 0

\* A body that counts a merged PR for a job only when the failure is not flaky
AddFailure_MergedElseFlaky(map, job, failure, isFlaky) ==
    LET i0   == FindIndex(map, {e \in Range(map) : e.name = failure.name})
        map1 == IF i0 # 0 THEN map
                ELSE Append(map, [name |-> failure.name, file |-> failure.file,
                                  occurrences |-> <<>>, affectedJobs |-> <<>>,
                                  uniquePRs |-> {}, flakyCount |-> 0, mergedCount |-> 0])
        i    == IF i0 # 0 THEN i0 ELSE Len(map1)
        e    == map1[i]
        occ  == [prNumber |-> job.pr_number, jobName |-> job.name, jobId |-> job.id,
                 runAttempt |-> job.run_attempt, isFlaky |-> isFlaky,
                 prMerged |-> job.pr_merged]
        a0   == FindIndex(e.affectedJobs, {a \in Range(e.affectedJobs) : a.name = job.name})
        aj1  == IF a0 # 0 THEN e.affectedJobs
                ELSE Append(e.affectedJobs, [name |-> job.name, count |-> 0,
                                             flakyCount |-> 0, mergedCount |-> 0])
        a    == IF a0 # 0 THEN a0 ELSE Len(aj1)
        aj2  == [aj1 EXCEPT ![a].count = @ + 1,
                            ![a].flakyCount = @ + B2N(isFlaky),
                            ![a].mergedCount = @ + B2N(job.pr_merged /\ ~isFlaky)]
    IN [map1 EXCEPT ![i] = [e EXCEPT !.occurrences = Append(@, occ),
                                     !.flakyCount = @ + B2N(isFlaky),
                                     !.mergedCount = @ + B2N(job.pr_merged),
                                     !.affectedJobs = aj2,
                                     !.uniquePRs = @ \cup {job.pr_number},
                                     !.file = IF failure.file # "" /\ @ = ""
                                              THEN failure.file ELSE @]]

\* the body of testResults.failures.forEach(failure => ...) for one failure of
\* one failed job; map is failedTestsMap, entries in order of first insertion
AddFailure(map, job, failure, isFlaky) ==
    LET i0   == FindIndex(map, {e \in Range(map) : e.name = failure.name})
        map1 == IF i0 # 0 THEN map
                ELSE Append(map, [name |-> failure.name, file |-> failure.file,
                                  occurrences |-> <<>>, affectedJobs |-> <<>>,
                                  uniquePRs |-> {}, flakyCount |-> 0, mergedCount |-> 0])
        i    == IF i0 # 0 THEN i0 ELSE Len(map1)
        e    == map1[i]
        occ  == [prNumber |-> job.pr_number, jobName |-> job.name, jobId |-> job.id,
                 runAttempt |-> job.run_attempt, isFlaky |-> isFlaky,
                 prMerged |-> job.pr_merged]
        a0   == FindIndex(e.affectedJobs, {a \in Range(e.affectedJobs) : a.name = job.name})
        aj1  == IF a0 # 0 THEN e.affectedJobs
                ELSE Append(e.affectedJobs, [name |-> job.name, count |-> 0,
                                             flakyCount |-> 0, mergedCount |-> 0])
        a    == IF a0 # 0 THEN a0 ELSE Len(aj1)
        aj2  == [aj1 EXCEPT ![a].count = @ + 1,
                            ![a].flakyCount = @ + B2N(isFlaky),
                            ![a].mergedCount = @ + B2N(job.pr_merged)]
    IN [map1 EXCEPT ![i] = [e EXCEPT !.occurrences = Append(@, occ),
                                     !.flakyCount = @ + B2N(isFlaky),
                                     !.mergedCount = @ + B2N(job.pr_merged),
                                     !.affectedJobs = aj2,
                                     !.uniquePRs = @ \cup {job.pr_number},
                                     !.file = IF failure.file # "" /\ @ = ""
                                              THEN failure.file ELSE @]]

RECURSIVE AddFailures(_, _, _, _)
AddFailures(map, job, failures, isFlaky) ==
    IF failures = <<>> THEN map
    ELSE AddFailures(AddFailure(map, job, Head(failures), isFlaky), job,
                     Tail(failures), isFlaky)

\* failedJobs.forEach(job => ...)
RECURSIVE ProcessFailed(_, _, _)
ProcessFailed(map, failedJobs, flaky) ==
    IF failedJobs = <<>> THEN map
    ELSE LET job == Head(failedJobs)
             isFlaky == PRJobKey(job.pr_number, job.name) \in flaky
             testResults == parsePRTestFailures(job.id)
         IN ProcessFailed(IF ~IsNull(testResults) /\ Len(Val(testResults).failures) > 0
                          THEN AddFailures(map, job, Val(testResults).failures, isFlaky)
                          ELSE map,
                          Tail(failedJobs), flaky)


\* job runs in raw-pr-runs.json
MaxPRJobs == 3

PRNumbers == {0, 1, 12}

\* the place of String(prNumber) in the order of localeCompare
PrRank(n) == Cardinality({m \in PRNumbers : StrLess(PrText(m), PrText(n))})

\* test.occurrences.sort(...): by PR, then by attempt, both decreasing (the
\* occurrences of the model share one date)
SortOccurrences(occs) ==
    Vals(SortDesc([i \in 1..Len(occs) |->
                     [k |-> PrRank(occs[i].prNumber) * 100 + occs[i].runAttempt,
                      v |-> occs[i]]]))

\* Object.values(failedTestsMap).map(...).sort((a, b) => b.totalFailures - a.totalFailures)
FailedTests(map) ==
    Vals(SortDesc([i \in 1..Len(map) |->
        [k |-> Len(map[i].occurrences),
         v |-> [name                 |-> map[i].name,
                file                 |-> map[i].file,
                totalFailures        |-> Len(map[i].occurrences),
                flakyCount           |-> map[i].flakyCount,
                mergedCount          |-> map[i].mergedCount,
                isConfirmedFlaky     |-> map[i].flakyCount > 0,
                mergedDespiteFailure |-> map[i].mergedCount > 0,
                uniquePRs            |-> Cardinality(map[i].uniquePRs),
                affectedJobs         |-> Vals(SortDesc([a \in 1..Len(map[i].affectedJobs) |->
                                            [k |-> map[i].affectedJobs[a].count,
                                             v |-> map[i].affectedJobs[a]]])),
                recentOccurrences    |-> SortOccurrences(map[i].occurrences)]]]))

RECURSIVE Sum(_)
Sum(s) == IF s = <<>> THEN 0 ELSE Head(s) + Sum(Tail(s))

\* outputData of the PR pipeline, as far as the model follows it
FlakyOutput(map, jobs) ==
    LET failedTests == FailedTests(map)
        failedJobs  == SelectSeqBy(jobs, {j \in Range(jobs) : j.conclusion = "failure"})
    IN [totalFailures             |-> Sum([i \in 1..Len(failedTests) |->
                                              failedTests[i].totalFailures]),
        totalPRs                  |-> Cardinality({failedJobs[i].pr_number :
                                                      i \in 1..Len(failedJobs)}),
        confirmedFlakyCount       |-> Cardinality({i \in 1..Len(failedTests) :
                                                      failedTests[i].isConfirmedFlaky}),
        mergedDespiteFailureCount |-> Cardinality({i \in 1..Len(failedTests) :
                                                      failedTests[i].mergedDespiteFailure}),
        failedTests               |-> failedTests]

\* emptyOutput, written when raw-pr-runs.json cannot be read
EmptyOutput == [totalFailures |-> 0, totalPRs |-> 0, flakyTests |-> <<>>]

PRJobIds == <<"p1", "p2", "p3", "p4">>

\* the (PR number, job name) pairs of the PR jobs: no PR number, and PR
\* numbers 1 and 12 with job names whose keys differ by the place of the dash
PRPairs == {<<0, <<"a">>>>, <<1, <<"2", "-", "a">>>>, <<12, <<"a">>>>}

PRJobChoices ==
    {[name |-> q[2], pr_number |-> q[1], run_attempt |-> a, conclusion |-> c,
      pr_merged |-> q[1] = 1] :
        q \in PRPairs, a \in {1, 2}, c \in {"failure", "success"}}

\* the contents of raw-pr-runs.json: at most MaxPRJobs jobs, ids by position
PRRunsChoices ==
    UNION {{[i \in 1..n |-> [id |-> PRJobIds[i], name |-> f[i].name,
                             pr_number |-> f[i].pr_number,
                             run_attempt |-> f[i].run_attempt,
                             conclusion |-> f[i].conclusion,
                             pr_merged |-> f[i].pr_merged]] :
              f \in [1..n -> PRJobChoices]} : n \in 0..MaxPRJobs}

\* the log of a failed PR job: one failed test, or two for the second job name
PRLog(job) ==
    IF job.name = <<"a">>
    THEN << <<"a.bats">>, <<"not ok", "1", "t1">>, <<"ok", "2", "t2">> >>
    ELSE << <<"not ok", "1", "t1">>, <<"not ok", "2", "t2">> >>

\* arg is raw-pr-runs.json: Null when the file is missing
InitFlaky ==
    /\ pc = "load"
    /\ unreadable \in SUBSET {"config.yaml"}
    /\ arg \in {Null} \cup {Some(jobs) : jobs \in PRRunsChoices}
    /\ res = <<>>
    /\ config = Config(<<>>)
    /\ IdleNightly
    /\ IdleFlaky

\* config.yaml cannot be read or parsed: process.exit(1)
PRConfigError ==
    /\ pc = "load"
    /\ "config.yaml" \in unreadable
    /\ pc' = "aborted"
    /\ UNCHANGED <<unreadable, nightlyVars, fnVars, flakyVars>>

\* raw-pr-runs.json is read, and the logs of pr-job-logs with it
LoadPRRuns ==
    /\ pc = "load"
    /\ unreadable = {}
    /\ ~IsNull(arg)
    /\ allJobs' = Val(arg)
    /\ jobLogs' = [id \in {j.id : j \in {x \in Range(Val(arg)) : x.conclusion = "failure"}} |->
                     PRLog(CHOOSE j \in Range(Val(arg)) : j.id = id)]
    /\ pc' = "group"
    /\ UNCHANGED <<unreadable, now, config, cachedData, failedTestsIndex, sections, allJobsSection,
                   detectedRenames, dataJson, runs, fnVars, flakyVars>>

\* A PR pipeline that ends with a failure when raw-pr-runs.json cannot be read
NoPRRuns_Abort ==
    /\ pc = "load"
    /\ unreadable = {}
    /\ IsNull(arg)
    /\ pc' = "aborted"
    /\ UNCHANGED <<unreadable, nightlyVars, fnVars, flakyVars>>

\* raw-pr-runs.json cannot be read: the empty output is written, exit code 0
NoPRRuns ==
    /\ pc = "load"
    /\ unreadable = {}
    /\ IsNull(arg)
    /\ flakyJson' = Some(EmptyOutput)
    /\ pc' = "exit"
    /\ UNCHANGED <<unreadable, nightlyVars, fnVars, prJobResults, flakyPRJobs, failedTestsMap>>

GroupJobs ==
    /\ pc = "group"
    /\ prJobResults' = GroupByPRJob(allJobs, <<>>)
    /\ pc' = "identify"
    /\ UNCHANGED <<unreadable, nightlyVars, fnVars, flakyPRJobs, failedTestsMap, flakyJson>>

FindFlaky ==
    /\ pc = "identify"
    /\ flakyPRJobs' = IdentifyFlaky(prJobResults)
    /\ pc' = "failed"
    /\ UNCHANGED <<unreadable, nightlyVars, fnVars, prJobResults, failedTestsMap, flakyJson>>

ProcessFailedJobs ==
    /\ pc = "failed"
    /\ failedTestsMap' =
          ProcessFailed(<<>>, SelectSeqBy(allJobs, {j \in Range(allJobs) :
                                                       j.conclusion = "failure"}),
                        flakyPRJobs)
    /\ pc' = "write"
    /\ UNCHANGED <<unreadable, nightlyVars, fnVars, prJobResults, flakyPRJobs, flakyJson>>

\* fs.writeFileSync('flaky-data.json', JSON.stringify(outputData))
WriteFlaky ==
    /\ pc = "write"
    /\ flakyJson' = Some(FlakyOutput(failedTestsMap, allJobs))
    /\ pc' = "exit"
    /\ UNCHANGED <<unreadable, nightlyVars, fnVars, prJobResults, flakyPRJobs, failedTestsMap>>

NextFlaky ==
    \/ PRConfigError
    \/ LoadPRRuns
    \/ NoPRRuns
    \/ GroupJobs
    \/ FindFlaky
    \/ ProcessFailedJobs
    \/ WriteFlaky

SpecFlaky == InitFlaky /\ [][NextFlaky]_vars

\* C21 as stated, for the PR pipeline: when config.yaml or raw-pr-runs.json
\* is missing or cannot be parsed, the run aborts with a failure and leaves
\* flaky-data.json as it was.
C21_Original ==
    [][(pc = "load" /\ (unreadable # {} \/ IsNull(arg))) =>
          (pc' = "aborted" /\ flakyJson' = flakyJson)]_vars

\* C21, amended, for the PR pipeline: without config.yaml the run aborts with
\* a failure and leaves flaky-data.json as it was; with config.yaml and
\* without raw-pr-runs.json it ends with success and writes a flaky-data.json
\* without failures.
C21_AbortOrEmptyOutput ==
    [][pc = "load" =>
          /\ unreadable # {} => (pc' = "aborted" /\ flakyJson' = flakyJson)
          /\ (unreadable = {} /\ IsNull(arg)) =>
                /\ pc' = "exit"
                /\ ~IsNull(flakyJson')
                /\ Val(flakyJson').totalFailures = 0
                /\ Val(flakyJson').totalPRs = 0
                /\ Val(flakyJson').flakyTests = <<>>]_vars

\* the PR pipeline has ended without raw-pr-runs.json
C21_Witness ==
    /\ pc = "exit"
    /\ IsNull(arg)
    /\ unreadable = {}
    /\ ~IsNull(flakyJson)

\* the failure occurrences of the flaky-data.json that a full run has written
WrittenOccurrences ==
    IF pc = "exit" /\ ~IsNull(arg)
    THEN UNION {Range(t.recentOccurrences) : t \in Range(Val(flakyJson).failedTests)}
    ELSE {}

\* C8: a failure occurrence is tagged isFlaky exactly when its (PR number, job
\* name) pair has a failed attempt and a passed attempt among the PR jobs; a
\* pair with failed attempts only has no flaky occurrence.
C8_FlakyIffFailedAndPassed ==
    \A o \in WrittenOccurrences :
        o.isFlaky <=>
            /\ \E j \in Range(allJobs) :
                  j.pr_number = o.prNumber /\ j.name = o.jobName /\ j.conclusion = "failure"
            /\ \E j \in Range(allJobs) :
                  j.pr_number = o.prNumber /\ j.name = o.jobName /\ j.conclusion = "success"

\* a run has written a flaky occurrence and one that is not flaky
C8_Witness ==
    /\ \E o \in WrittenOccurrences : o.isFlaky
    /\ \E o \in WrittenOccurrences : ~o.isFlaky

\* C9: a failure occurrence is flaky only if the same job passed on a later
\* attempt for the same PR: not through a pass that came before the failure,
\* and not through a pass of a run without a PR number.
C9_PassedLaterSamePR ==
    \A o \in WrittenOccurrences :
        o.isFlaky =>
            \E j \in Range(allJobs) :
                /\ j.name = o.jobName
                /\ j.conclusion = "success"
                /\ j.pr_number # 0
                /\ j.pr_number = o.prNumber
                /\ j.run_attempt > o.runAttempt

\* the failed test records of the flaky-data.json that a full run has written
WrittenRecords ==
    IF pc = "exit" /\ ~IsNull(arg) THEN Val(flakyJson).failedTests ELSE <<>>

\* the occurrences of a record that satisfy a condition
Flagged(test, F(_)) ==
    Cardinality({i \in 1..Len(test.recentOccurrences) : F(test.recentOccurrences[i])})

OccIsFlaky(o) == o.isFlaky

OccPrMerged(o) == o.prMerged

\* C28: in flaky-data.json every occurrence carries the pr_merged of its own
\* job; in every failed test record totalFailures is the number of
\* occurrences, flakyCount the number of flaky ones and mergedCount the number
\* of those of a merged PR, neither above totalFailures; the counts of the
\* affected jobs add up to the totals of the record; the records are in
\* decreasing order of totalFailures.
C28_FlakyCounters ==
    /\ \A k \in 1..Len(WrittenRecords) :
          \E test \in {WrittenRecords[k]} :
            /\ \A o \in Range(test.recentOccurrences) :
                  \E j \in Range(allJobs) : j.id = o.jobId /\ o.prMerged = j.pr_merged
            /\ test.totalFailures = Len(test.recentOccurrences)
            /\ test.flakyCount = Flagged(test, OccIsFlaky)
            /\ test.mergedCount = Flagged(test, OccPrMerged)
            /\ test.flakyCount <= test.totalFailures
            /\ test.mergedCount <= test.totalFailures
            /\ Sum([a \in 1..Len(test.affectedJobs) |-> test.affectedJobs[a].count])
                  = test.totalFailures
            /\ Sum([a \in 1..Len(test.affectedJobs) |-> test.affectedJobs[a].flakyCount])
                  = test.flakyCount
            /\ Sum([a \in 1..Len(test.affectedJobs) |-> test.affectedJobs[a].mergedCount])
                  = test.mergedCount
    /\ \A k \in 1..(Len(WrittenRecords) - 1) :
          WrittenRecords[k].totalFailures >= WrittenRecords[k + 1].totalFailures

\* a run has written two records with different totals, the first with
\* occurrences in two jobs, one of them flaky and of a merged PR, one neither
C28_Witness ==
    /\ Len(WrittenRecords) = 2
    /\ WrittenRecords[1].totalFailures > WrittenRecords[2].totalFailures
    /\ Len(WrittenRecords[1].affectedJobs) = 2
    /\ \E o \in Range(WrittenRecords[1].recentOccurrences) : o.isFlaky /\ o.prMerged
    /\ \E o \in Range(WrittenRecords[1].recentOccurrences) : ~o.isFlaky /\ ~o.prMerged

-----------------------------------------------------------------------------
(* Renames across runs: the pipeline over jobs that appear and disappear    *)

\* processing runs in a behaviour that follows rename candidates
MaxRenameRuns == 2

NameOld   == <<"r", "u", "n", "-", "k", "8", "s", "-", "t", "e", "s", "t", "s", " ", "(", "o", "l", "d", ")">>
NameNew   == <<"r", "u", "n", "-", "k", "8", "s", "-", "t", "e", "s", "t", "s", " ", "(", "o", "l", "d", "-", "v", "2", ")">>
\* a name that has only its prefix in common with NameA
NameArm   == <<"r", "u", "n", "-", "a", " ", "(", "a", "r", "m", "6", "4", ")">>
\* two names that agree at 7 of 10 positions and in a prefix of 6
NameEdge  == <<"r", "u", "n", "-", "a", "b", "-", "c", "d", "e">>
NameEdge2 == <<"r", "u", "n", "-", "a", "b", "X", "c", "Y", "Z">>

\* the job runs a raw-runs.json with renamed jobs is drawn from
RenamePool ==
    << RawJob("k1", NameNew,   0, 0, "completed", "success", StepsPass,     1, "v1"),
       RawJob("k2", NameOld,   0, 1, "completed", "success", StepsPass,     1, "v2"),
       RawJob("k3", NameArm,   1, 0, "completed", "failure", StepsTestFail, 1, "v3"),
       RawJob("k4", NameEdge2, 0, 0, "completed", "success", StepsPass,     1, "v4"),
       RawJob("k5", NameNew,   0, 1, "in_progress", "null",  StepsRunning,  1, "v5") >>

RenameRawChoices ==
    {SelectSeqBy(RenamePool, S) :
        S \in {T \in SUBSET Range(RenamePool) : Cardinality(T) \in 1..MaxRaw}}

\* A history whose only run is older than the last RecentDays entries
StaleHistory ==
    [i \in 1..WeatherDays |->
        IF i = WeatherDays - RecentDays THEN CachedDay(RecentDays + 1, "passed", Null, <<>>)
        ELSE CachedDay(WeatherDays + 1 - i, "none", Null, <<>>)]

\* A candidate as a previous run stored it
OldRename(oldName, newName, ticksAgo, wh) ==
    [oldName |-> oldName, newName |-> newName,
     similarity |-> SimilarityPercent(stringSimilarity(oldName, newName)),
     detectedDate |-> Now0 - ticksAgo, oldWeatherHistory |-> wh]

\* not_a_rename lists of config.yaml
ExclusionChoices ==
    { <<>>,
      <<[old |-> NameOld, new |-> NameNew]>>,
      <<[old |-> NameNew, new |-> NameOld], [old |-> NameA, new |-> NameArm]>> }

RenameConfigChoices ==
    {[Config(jobs) EXCEPT !.not_a_rename = x] :
        jobs \in {<<JobCfg(NameA)>>, <<JobCfg(NameNew)>>}, x \in ExclusionChoices}

\* data.json before the first run: snapshots of the day before in which the
\* old names were current, with the candidates that run had detected or carried
RenameCacheChoices ==
    { Some(Snapshot(<<>>, <<OldTest(NameOld, OldHistoryA)>>, <<>>, <<>>)),
      Some(Snapshot(<<OldTest(NameOld, OldHistoryA)>>, <<OldTest(NameA, OldHistoryB)>>,
                    <<>>, <<>>)),
      Some(Snapshot(<<>>, <<OldTest(NameOld, StaleHistory), OldTest(NameEdge, OldHistoryB)>>,
                    <<>>, <<>>)),
      Some(Snapshot(<<>>, <<OldTest(NameNew, OldHistoryB)>>, <<>>,
                    <<OldRename(NameOld, NameNew, TicksPerDay, OldHistoryA)>>)),
      Some(Snapshot(<<>>, <<OldTest(NameNew, OldHistoryB)>>, <<>>,
                    <<OldRename(NameOld, NameNew, 3 * TicksPerDay - 1, OldHistoryA),
                      OldRename(NameA, NameArm, 3 * TicksPerDay, OldHistoryB)>>)) }

InitRename ==
    /\ pc = "load"
    /\ unreadable = {}
    /\ now = Now0
    /\ config \in RenameConfigChoices
    /\ allJobs \in RenameRawChoices
    /\ jobLogs = <<>>
    /\ dataJson \in RenameCacheChoices
    /\ cachedData = Null
    /\ failedTestsIndex = <<>>
    /\ sections = <<>>
    /\ allJobsSection = <<>>
    /\ detectedRenames = <<>>
    /\ runs = 0
    /\ IdleFn
    /\ IdleFlaky

\* the workflow starts the script again, a moment or some days later
NextRunAfter ==
    /\ pc = "exit"
    /\ runs < MaxRenameRuns
    /\ \E d \in {1, TicksPerDay, RenameDays * TicksPerDay} : now' = now + d
    /\ pc' = "load"
    /\ UNCHANGED <<unreadable, config, allJobs, jobLogs, cachedData, failedTestsIndex, sections,
                   allJobsSection, detectedRenames, dataJson, runs, fnVars, flakyVars>>

\* A maintainer rejects a reported candidate between two runs: its pair is
\* added to not_a_rename in config.yaml
EditExclusions ==
    /\ pc = "exit"
    /\ runs < MaxRenameRuns
    /\ \E i \in 1..Len(detectedRenames) :
          /\ ~IsExcluded(detectedRenames[i].oldName, detectedRenames[i].newName)
          /\ config' = [config EXCEPT !.not_a_rename =
                           Append(@, [old |-> detectedRenames[i].oldName,
                                      new |-> detectedRenames[i].newName])]
    /\ UNCHANGED <<unreadable, pc, now, allJobs, jobLogs, cachedData, failedTestsIndex, sections,
                   allJobsSection, detectedRenames, dataJson, runs, fnVars, flakyVars>>

NextRename ==
    \/ LoadCache
    \/ ProcessSections
    \/ Enrich
    \/ ProcessAllJobs
    \/ DetectAndAlias
    \/ WriteData
    \/ NextRunAfter
    \/ EditExclusions

SpecRename == InitRename /\ [][NextRename]_vars

\* the tests of the previous snapshot, the "All Jobs" section first
CachedTests ==
    IF IsNull(cachedData) THEN <<>>
    ELSE Val(cachedData).allJobsSection
         \o Flatten([i \in 1..Len(Val(cachedData).sections) |->
                        Val(cachedData).sections[i].tests])

CachedNames == {t.jobName : t \in Range(CachedTests)}

\* the names of the current jobs with a day that is not 'none'
ActiveNames ==
    {t.jobName : t \in {u \in Range(allJobsSection) :
                           \E d \in Range(u.weatherHistory) : d.status # "none"}}

\* the cached history under a name: the one of the "All Jobs" section when
\* the name is there
CachedHistoryOf(name) ==
    CachedTests[CHOOSE i \in 1..Len(CachedTests) :
                   /\ CachedTests[i].jobName = name
                   /\ \A k \in 1..(i - 1) : CachedTests[k].jobName # name].weatherHistory

\* the pairs the detector has to report afresh
ExpectedPairs ==
    {p \in CachedNames \X ActiveNames :
        /\ p[2] \notin CachedNames
        /\ p[1] \notin ActiveNames
        /\ \E i \in 1..WeatherDays :
              i > WeatherDays - 5 /\ CachedHistoryOf(p[1])[i].status # "none"
        /\ ~\E x \in Range(config.not_a_rename) : x.old = p[1] /\ x.new = p[2]
        /\ \/ 10 * stringSimilarity(p[1], p[2])[1] > 7 * stringSimilarity(p[1], p[2])[2]
           \/ 10 * commonPrefixLength(p[1], p[2])
                 > 6 * (IF Len(p[1]) < Len(p[2]) THEN Len(p[1]) ELSE Len(p[2]))}

\* the pairs of the candidates dated t
FreshPairs(renames, t) ==
    {<<r.oldName, r.newName>> : r \in {x \in Range(renames) : x.detectedDate = t}}

\* the day a history has on the date of another day, or that day itself
OldDayFor(oldHistory, day) ==
    IF \E o \in Range(oldHistory) : toDateString(o.date) = toDateString(day.date)
    THEN CHOOSE o \in Range(oldHistory) : toDateString(o.date) = toDateString(day.date)
    ELSE day

\* C16: detectRenames reports afresh exactly the pairs (old, new) in which new
\* is a current job with a day that is not 'none' and absent from the previous
\* snapshot, old is in the previous snapshot, not among the current active
\* jobs and not 'none' in one of its last 5 cached days, the pair is not
\* excluded, and similarity > 0.7 or prefix ratio > 0.6; when
\* 'run-k8s-tests (old)' disappears and 'run-k8s-tests (old-v2)' appears the
\* pair is reported and the old days replace the 'none' days of the new job.
C16_FreshRenames ==
    [][pc = "renames" =>
        /\ FreshPairs(detectedRenames', now) = ExpectedPairs
        /\ (<<NameOld, NameNew>> \in ExpectedPairs /\ Cardinality(ExpectedPairs) = 1) =>
              \A k \in 1..Len(allJobsSection) :
                  allJobsSection[k].jobName = NameNew =>
                      \A i \in 1..WeatherDays :
                          allJobsSection'[k].weatherHistory[i] =
                              IF /\ allJobsSection[k].weatherHistory[i].status = "none"
                                 /\ OldDayFor(CachedHistoryOf(NameOld),
                                        allJobsSection[k].weatherHistory[i]).status # "none"
                              THEN OldDayFor(CachedHistoryOf(NameOld),
                                             allJobsSection[k].weatherHistory[i])
                              ELSE allJobsSection[k].weatherHistory[i]]_vars

\* 'run-k8s-tests (old-v2)' has just been reported as the new name of
\* 'run-k8s-tests (old)' and has taken a day of the old history
C16_Witness ==
    /\ pc = "write"
    /\ \E r \in Range(detectedRenames) :
          r.oldName = NameOld /\ r.newName = NameNew /\ r.detectedDate = now
    /\ \E t \in Range(allJobsSection) :
          /\ t.jobName = NameNew
          /\ t.aliasedFrom = NameOld
          /\ \E d \in Range(t.weatherHistory) : d.status = "failed" /\ d.jobId = "j91"
          /\ \E d \in Range(t.weatherHistory) : d.status = "passed" /\ d.jobId = "k1"

\* C29: in the snapshot a run writes, the failureCount of every job, in the
\* sections and in the "All Jobs" section, is the number of days of its
\* weatherHistory with status 'failed', also for a job whose weatherHistory
\* took days from the history of an old name.
C29_FailureCountOfHistory ==
    (pc = "exit" /\ ~IsNull(dataJson)) =>
        \A t \in Range(WrittenTests) : t.failureCount = CountFailed(t.weatherHistory)

\* C17: no rename candidate of the snapshot a run writes, detected afresh or
\* carried forward, has a pair that the exclusion list of the run names, and
\* no test carries the history of an excluded pair.
C17_NoExcludedCandidate ==
    pc = "write" =>
        /\ \A r \in Range(detectedRenames) : ~IsExcluded(r.oldName, r.newName)
        /\ \A t \in Range(BuiltTests) :
              t.aliasedFrom # <<>> => ~IsExcluded(t.aliasedFrom, t.jobName)

\* the candidates of the snapshot the run has read
CachedRenames == IF IsNull(cachedData) THEN <<>> ELSE Val(cachedData).detectedRenames

\* the entries of a list of candidates for the pair of r
SamePair(renames, r) ==
    {i \in 1..Len(renames) :
        renames[i].oldName = r.oldName /\ renames[i].newName = r.newName}

\* C18: a candidate of the previous snapshot that the run does not detect
\* again is in the new snapshot, unchanged and with its detectedDate, when
\* the run is less than 3 days after its detectedDate, and absent otherwise;
\* no pair is in the new snapshot twice, and every candidate of a snapshot is
\* less than 3 days old.
C18_CarriedThreeDays ==
    [][pc = "renames" =>
        /\ \A r \in Range(CachedRenames) :
              <<r.oldName, r.newName>> \notin FreshPairs(detectedRenames', now) =>
                  IF now - r.detectedDate < 3 * TicksPerDay
                  THEN r \in Range(detectedRenames')
                  ELSE SamePair(detectedRenames', r) = {}
        /\ \A r \in Range(detectedRenames') :
              /\ Cardinality(SamePair(detectedRenames', r)) = 1
              /\ r.detectedDate <= now
              /\ now - r.detectedDate < 3 * TicksPerDay]_vars

\* the second run of a behaviour has carried a candidate that the first run
\* detected, and has dropped one that the snapshot before held
C18_Witness ==
    /\ pc = "write"
    /\ runs = 1
    /\ \E r \in Range(CachedRenames) :
          /\ r.detectedDate = Val(cachedData).lastRefresh
          /\ r.detectedDate < now
          /\ r \in Range(detectedRenames)
    /\ \E r \in Range(CachedRenames) :
          /\ now - r.detectedDate >= 3 * TicksPerDay
          /\ SamePair(detectedRenames, r) = {}

-----------------------------------------------------------------------------
(* The similarity of two job names on its own                               *)

NameChoices ==
    { NameA, NameA2, NameB, NameOld, NameNew, NameArm, NameEdge, NameEdge2,
      <<"R", "u", "n", "-", "A">>,
      <<"k", "8", "s">>,
      <<"r">> }

InitSimilarity ==
    /\ pc = "call"
    /\ unreadable = {}
    /\ config = Config(<<>>)
    /\ arg \in NameChoices \X NameChoices
    /\ res = <<>>
    /\ IdleNightly
    /\ IdleFlaky

\* const similarity = stringSimilarity(oldJob.name, jobName); prefixLen,
\* minLen, prefixRatio; similarity: Math.round(similarity * 100)
Similarity ==
    /\ pc = "call"
    /\ res' = Some([similarity  |-> stringSimilarity(arg[1], arg[2]),
                    prefixRatio |-> <<commonPrefixLength(arg[1], arg[2]),
                                      IF Len(arg[1]) < Len(arg[2])
                                      THEN Len(arg[1]) ELSE Len(arg[2])>>,
                    reported    |-> SimilarityPercent(stringSimilarity(arg[1], arg[2]))])
    /\ pc' = "return"
    /\ UNCHANGED <<unreadable, nightlyVars, arg, flakyVars>>

NextSimilarity == Similarity

SpecSimilarity == InitSimilarity /\ [][NextSimilarity]_vars

ShorterLen == IF Len(arg[1]) < Len(arg[2]) THEN Len(arg[1]) ELSE Len(arg[2])
LongerLen  == IF Len(arg[1]) < Len(arg[2]) THEN Len(arg[2]) ELSE Len(arg[1])

\* the positions at which the lowercased names agree
Agreeing == {i \in 1..ShorterLen : ToLower(arg[1][i]) = ToLower(arg[2][i])}

\* the length of the longest prefix the names have in common
PrefixLen ==
    CHOOSE n \in 0..ShorterLen :
        /\ SubSeq(arg[1], 1, n) = SubSeq(arg[2], 1, n)
        /\ n < ShorterLen => arg[1][n + 1] # arg[2][n + 1]

\* the fractions <<a, b>> and <<c, d>> are the same number
SameRatio(x, y) == x[1] * y[2] = y[1] * x[2]

\* p is the fraction x in percent, rounded to the nearest integer
RoundedPercent(p, x) ==
    /\ p \in 0..100
    /\ 2 * p * x[2] <= 200 * x[1] + x[2]
    /\ 200 * x[1] + x[2] < 2 * (p + 1) * x[2]

\* C19 as stated: the similarity is the number of agreeing positions over the
\* length of the shorter name, the prefix ratio the common prefix over the
\* length of the shorter name, and the reported similarity that ratio in percent
C19_Original ==
    pc = "return" =>
        /\ SameRatio(Val(res).similarity, <<Cardinality(Agreeing), ShorterLen>>)
        /\ SameRatio(Val(res).prefixRatio, <<PrefixLen, ShorterLen>>)
        /\ RoundedPercent(Val(res).reported, <<Cardinality(Agreeing), ShorterLen>>)

\* C19, amended: the similarity is the number of positions at which the
\* lowercased names agree over the length of the longer name, the prefix ratio
\* the common prefix over the length of the shorter name, and the reported
\* similarity the similarity in percent, rounded, in 0..100
C19_SimilarityOverLonger ==
    pc = "return" =>
        /\ SameRatio(Val(res).similarity, <<Cardinality(Agreeing), LongerLen>>)
        /\ SameRatio(Val(res).prefixRatio, <<PrefixLen, ShorterLen>>)
        /\ RoundedPercent(Val(res).reported, <<Cardinality(Agreeing), LongerLen>>)

\* the similarity of two names of different lengths that agree somewhere
C19_Witness ==
    /\ pc = "return"
    /\ ShorterLen < LongerLen
    /\ Agreeing # {}
    /\ PrefixLen < ShorterLen
    /\ Val(res).reported \in 1..99

====
